---- MODULE Spec2Model ----
(***************************************************************************)
(* KYC verification backend: the decision pipeline (pipeline/quality.py,   *)
(* pipeline/extractor.py, pipeline/face_match.py, pipeline/checks.py,      *)
(* pipeline/decision.py, pipeline/run_pipeline.py) and its handler         *)
(* (app.py).                                                               *)
(*                                                                         *)
(* Conventions                                                             *)
(*  - a Python str is a sequence of one-character strings;                 *)
(*  - a Python value is a tagged record: Str [t, v], Num [t, n], Bool     *)
(*    [t, b], Dict [t, d], Null [t];                                       *)
(*  - a Python dict is a function whose DOMAIN is its key set; an ordered  *)
(*    dict whose iteration order matters is a sequence of [k, v] entries;  *)
(*  - floats with two decimals are integers in hundredths (0.6 is 60).     *)
(*                                                                         *)
(* Specifications                                                          *)
(*  - Spec: one call of run_pipeline, step by step;                        *)
(*  - SpecDecision: DecisionEngine.make_decision called on drawn           *)
(*    arguments;                                                           *)
(*  - SpecMask: the masking functions called on drawn strings;             *)
(*  - SpecExtracted: _mask_extracted_data called on drawn extracted maps;  *)
(*  - SpecQuality: ImageQualityGate.evaluate called on drawn images;       *)
(*  - SpecChecks: format_checks and cross_document_consistency called on   *)
(*    drawn extracted maps;                                                *)
(*  - SpecPlate: run_pipeline from its checks on, for drawn plate and rc   *)
(*    documents;                                                           *)
(*  - SpecHandler: app.py verify_kyc around one call of run_pipeline.      *)
(***************************************************************************)
EXTENDS Integers, Sequences, FiniteSets, TLC

\* ------------------------------------------------------------------------
\* Characters and strings
\* ------------------------------------------------------------------------
LowerSeq ==
  <<"a","b","c","d","e","f","g","h","i","j","k","l","m",
    "n","o","p","q","r","s","t","u","v","w","x","y","z">>

UpperSeq ==
  <<"A","B","C","D","E","F","G","H","I","J","K","L","M",
    "N","O","P","Q","R","S","T","U","V","W","X","Y","Z">>

DigitSeq == <<"0","1","2","3","4","5","6","7","8","9">>

Digit == {DigitSeq[i] : i \in 1..10}

Upper == {UpperSeq[i] : i \in 1..26}

Lower == {LowerSeq[i] : i \in 1..26}

\* characters matched by \s and stripped by str.strip()
WS == {" ", "\t", "\n", "\r"}

\* characters at which str.splitlines() breaks a line
LineBreak == {"\n", "\r"}

upper_char(c) ==
  IF c \in Lower THEN UpperSeq[CHOOSE i \in 1..26 : LowerSeq[i] = c] ELSE c

lower_char(c) ==
  IF c \in Upper THEN LowerSeq[CHOOSE i \in 1..26 : UpperSeq[i] = c] ELSE c

\* str.upper()
str_upper(s) == [i \in 1..Len(s) |-> upper_char(s[i])]

\* str.lower()
str_lower(s) == [i \in 1..Len(s) |-> lower_char(s[i])]

AllIn(s, cls) == \A i \in 1..Len(s) : s[i] \in cls

\* c in s, for a one-character c
HasChar(s, c) == \E i \in 1..Len(s) : s[i] = c

\* str.lstrip() and str.rstrip()
RECURSIVE str_lstrip(_)
str_lstrip(s) ==
  IF s = <<>> THEN s ELSE IF Head(s) \notin WS THEN s ELSE str_lstrip(Tail(s))

RECURSIVE str_rstrip(_)
str_rstrip(s) ==
  IF s = <<>> THEN s
  ELSE IF s[Len(s)] \notin WS THEN s ELSE str_rstrip(SubSeq(s, 1, Len(s) - 1))

\* str.strip()
str_strip(s) == str_rstrip(str_lstrip(s))

\* str.replace(" ", "")
remove_spaces(s) == SelectSeq(s, LAMBDA c : c # " ")

\* re.sub(r"\s+", " ", s)
RECURSIVE collapse_ws(_)
collapse_ws(s) ==
  IF s = <<>> THEN <<>>
  ELSE IF Head(s) \in WS
       THEN IF Len(s) > 1 /\ s[2] \in WS
            THEN collapse_ws(Tail(s))
            ELSE <<" ">> \o collapse_ws(Tail(s))
       ELSE <<Head(s)>> \o collapse_ws(Tail(s))

\* the first element of str.splitlines(); only called on a non-empty string
first_line(s) ==
  LET brk == {i \in 1..Len(s) : s[i] \in LineBreak}
  IN  IF brk = {} THEN s
      ELSE SubSeq(s, 1, (CHOOSE i \in brk : \A j \in brk : i <= j) - 1)

\* str.split(): the list of maximal runs of non-whitespace characters
RECURSIVE str_split(_)
str_split(s) ==
  LET t == str_strip(s)
  IN  IF t = <<>> THEN <<>>
      ELSE LET ws == {i \in 1..Len(t) : t[i] \in WS}
           IN  IF ws = {} THEN <<t>>
               ELSE LET cut == CHOOSE i \in ws : \A j \in ws : i <= j
                    IN  <<SubSeq(t, 1, cut - 1)>>
                          \o str_split(SubSeq(t, cut + 1, Len(t)))

\* the last k characters, s[-k:]
last_chars(s, k) == IF Len(s) <= k THEN s ELSE SubSeq(s, Len(s) - k + 1, Len(s))

\* the decimal value of a digit string
RECURSIVE digits_value(_)
digits_value(s) ==
  IF s = <<>> THEN 0
  ELSE 10 * digits_value(SubSeq(s, 1, Len(s) - 1))
         + ((CHOOSE i \in 1..10 : DigitSeq[i] = s[Len(s)]) - 1)

\* ", ".join(xs) for a list of one-token names
RECURSIVE join_comma(_)
join_comma(xs) ==
  IF xs = <<>> THEN <<>>
  ELSE IF Len(xs) = 1 THEN <<xs[1]>>
  ELSE <<xs[1], ", ">> \o join_comma(Tail(xs))

\* ------------------------------------------------------------------------
\* Python values
\* ------------------------------------------------------------------------
Str(s) == [t |-> "str", v |-> s]

Null == [t |-> "null"]

Num(n) == [t |-> "num", n |-> n]

Bool(b) == [t |-> "bool", b |-> b]

Dict(d) == [t |-> "dict", d |-> d]

EmptyDict == <<>>

IsStr(x) == x.t = "str"

IsNum(x) == x.t = "num"

\* truthiness of a value in an `if x` / `x or y` / `not x` test
Truthy(x) ==
  CASE x.t = "str"  -> x.v # <<>>
    [] x.t = "null" -> FALSE
    [] x.t = "num"  -> x.n # 0
    [] x.t = "bool" -> x.b
    [] x.t = "dict" -> DOMAIN x.d # {}

\* dict.get(key) with the default None
Get(d, key) == IF key \in DOMAIN d THEN d[key] ELSE Null

\* dict.get(key, default)
GetOr(d, key, default) == IF key \in DOMAIN d THEN d[key] ELSE default

\* ------------------------------------------------------------------------
\* config.py: thresholds (hundredths) and patterns
\* ------------------------------------------------------------------------
FACE_MIN_CONFIDENCE == 60

MIN_EXTRACTION_CONFIDENCE == 70

MIN_PLATE_CONFIDENCE == 80

QUALITY_THRESHOLD_PROCEED == 80

QUALITY_THRESHOLD_CAUTION == 40

MIN_IMAGE_WIDTH == 800

MIN_IMAGE_HEIGHT == 600

BLUR_THRESHOLD == 100

MIN_BRIGHTNESS == 50

MAX_BRIGHTNESS == 200

MIN_CONTRAST == 30

\* re.fullmatch(r"^\d{4}\s\d{4}\s\d{4}$", s)
AADHAAR_REGEX(s) ==
  /\ Len(s) = 14
  /\ AllIn(SubSeq(s, 1, 4), Digit)
  /\ s[5] \in WS
  /\ AllIn(SubSeq(s, 6, 9), Digit)
  /\ s[10] \in WS
  /\ AllIn(SubSeq(s, 11, 14), Digit)

\* re.fullmatch(r"^[A-Z]{2}\d{2}\s\d{11}$", s)
DL_REGEX(s) ==
  /\ Len(s) = 16
  /\ AllIn(SubSeq(s, 1, 2), Upper)
  /\ AllIn(SubSeq(s, 3, 4), Digit)
  /\ s[5] \in WS
  /\ AllIn(SubSeq(s, 6, 16), Digit)

\* re.fullmatch(r"^\d{6}$", s)
PINCODE_REGEX(s) == Len(s) = 6 /\ AllIn(s, Digit)

\* re.fullmatch(r"^[A-Z]{2}[0-9]{2}[A-Z]{1,2}[0-9]{1,4}$", s)
INDIAN_PLATE_REGEX(s) ==
  \E a \in 1..2, b \in 1..4 :
    /\ Len(s) = 4 + a + b
    /\ AllIn(SubSeq(s, 1, 2), Upper)
    /\ AllIn(SubSeq(s, 3, 4), Digit)
    /\ AllIn(SubSeq(s, 5, 4 + a), Upper)
    /\ AllIn(SubSeq(s, 5 + a, 4 + a + b), Digit)

\* the fields an extraction that failed to parse still carries
DOCUMENT_CONFIGS(doc_type) ==
  CASE doc_type = "aadhaar_front" ->
         {"name", "date_of_birth", "aadhaar_number", "gender", "year_of_birth"}
    [] doc_type = "aadhaar_back" ->
         {"address", "pincode", "state", "aadhaar_number"}
    [] doc_type = "driving_license" ->
         {"name", "license_number", "date_of_birth", "issue_date",
          "validity_nt", "validity_tr", "issuing_authority"}
    [] doc_type = "vehicle_plate_photo" -> {"vehicle_number"}
    [] doc_type = "rc" -> {"vehicle_number"}
    [] OTHER -> {}

\* ------------------------------------------------------------------------
\* datetime.strptime(s, "%d-%m-%Y") and date comparison
\* ------------------------------------------------------------------------
NoDate == <<0, 0, 0>>

IsLeap(y) == (y % 4 = 0 /\ y % 100 # 0) \/ y % 400 = 0

DaysInMonth(y, m) ==
  IF m = 2 THEN (IF IsLeap(y) THEN 29 ELSE 28)
  ELSE IF m \in {4, 6, 9, 11} THEN 30 ELSE 31

\* %d: 3[0-1] | [1-2]\d | 0[1-9] | [1-9] | " "[1-9]
DayField(s) ==
  \/ Len(s) = 2 /\ s[1] = "3" /\ s[2] \in {"0", "1"}
  \/ Len(s) = 2 /\ s[1] \in {"1", "2"} /\ s[2] \in Digit
  \/ Len(s) = 2 /\ s[1] \in {"0", " "} /\ s[2] \in Digit \ {"0"}
  \/ Len(s) = 1 /\ s[1] \in Digit \ {"0"}

\* %m: 1[0-2] | 0[1-9] | [1-9]
MonthField(s) ==
  \/ Len(s) = 2 /\ s[1] = "1" /\ s[2] \in {"0", "1", "2"}
  \/ Len(s) = 2 /\ s[1] = "0" /\ s[2] \in Digit \ {"0"}
  \/ Len(s) = 1 /\ s[1] \in Digit \ {"0"}

\* %Y: \d\d\d\d
YearField(s) == Len(s) = 4 /\ AllIn(s, Digit)

\* the <<year, month, day>> strptime returns, or NoDate where it raises ValueError
strptime(s) ==
  LET dash == {i \in 1..Len(s) : s[i] = "-"}
  IN  IF Cardinality(dash) # 2 THEN NoDate
      ELSE LET i1 == CHOOSE i \in dash : \A j \in dash : i <= j
               i2 == CHOOSE i \in dash : \A j \in dash : j <= i
               ds == SubSeq(s, 1, i1 - 1)
               ms == SubSeq(s, i1 + 1, i2 - 1)
               ys == SubSeq(s, i2 + 1, Len(s))
           IN  IF ~(DayField(ds) /\ MonthField(ms) /\ YearField(ys)) THEN NoDate
               ELSE LET d == digits_value(SelectSeq(ds, LAMBDA c : c # " "))
                        m == digits_value(ms)
                        y == digits_value(ys)
                    IN  IF y >= 1 /\ d <= DaysInMonth(y, m)
                        THEN <<y, m, d>> ELSE NoDate

\* a < b for two dates
DateBefore(a, b) ==
  \/ a[1] < b[1]
  \/ a[1] = b[1] /\ a[2] < b[2]
  \/ a[1] = b[1] /\ a[2] = b[2] /\ a[3] < b[3]

\* ------------------------------------------------------------------------
\* pipeline/checks.py: DocumentChecks
\* ------------------------------------------------------------------------
\* normalize_text without the lower-casing
normalize_text_cased(text) ==
  IF ~Truthy(text) THEN <<>>
  ELSE collapse_ws(str_strip(text.v))

\* re.sub(r"\s+", " ", text.strip().lower()), "" for a falsy text
normalize_text(text) ==
  IF ~Truthy(text) THEN <<>>
  ELSE collapse_ws(str_lower(str_strip(text.v)))

\* re.sub(r"[^A-Z0-9]", "", number.upper()); only called on a non-empty string
normalize_vehicle_number(number) ==
  SelectSeq(str_upper(number), LAMBDA c : c \in Upper \cup Digit)

\* is_expired counting the day of expiry itself as expired
is_expired_on_the_day(date_str, today) ==
  /\ Truthy(date_str)
  /\ strptime(date_str.v) # NoDate
  /\ ~DateBefore(today, strptime(date_str.v))

\* is_expired(date_str) of _check_dl_expiry
is_expired(date_str, today) ==
  /\ Truthy(date_str)
  /\ strptime(date_str.v) # NoDate
  /\ DateBefore(strptime(date_str.v), today)

_check_dl_expiry(dl_data, today) ==
  LET validity_nt == Get(dl_data, "validity_nt")
      validity_tr == Get(dl_data, "validity_tr")
  IN  (IF Truthy(validity_nt) /\ is_expired(validity_nt, today)
         THEN <<"DL_EXPIRED_NT">> ELSE <<>>)
      \o (IF Truthy(validity_tr) /\ is_expired(validity_tr, today)
            THEN <<"DL_EXPIRED_TR">> ELSE <<>>)
      \o (IF ~Truthy(validity_nt) /\ ~Truthy(validity_tr)
            THEN <<"DL_EXPIRY_NOT_READABLE">> ELSE <<>>)

\* the DL number test of format_checks: masked values (an X anywhere) are exempt
dl_number_invalid(dl_number) ==
  /\ Truthy(dl_number)
  /\ ~HasChar(str_upper(dl_number.v), "X")
  /\ LET norm == SelectSeq(str_upper(dl_number.v), LAMBDA c : c \notin WS \cup {"-"})
     IN  ~(\/ DL_REGEX(dl_number.v)
           \/ (Len(norm) = 15 /\ AllIn(SubSeq(norm, 1, 2), Upper)
                 /\ AllIn(SubSeq(norm, 3, 15), Digit)))

format_checks(extracted, today) ==
  LET aadhaar_front == GetOr(extracted, "aadhaar_front", EmptyDict)
      aadhaar_number == Get(aadhaar_front, "aadhaar_number")
      dob == Get(aadhaar_front, "date_of_birth")
      aadhaar_back == GetOr(extracted, "aadhaar_back", EmptyDict)
      pincode == Get(aadhaar_back, "pincode")
      dl == GetOr(extracted, "driving_license", EmptyDict)
      dl_number == Get(dl, "license_number")
      plate == GetOr(extracted, "vehicle_plate_photo", EmptyDict)
      plate_number == Get(plate, "vehicle_number")
      rc == GetOr(extracted, "rc", EmptyDict)
      rc_number == Get(rc, "vehicle_number")
  IN  (IF Truthy(aadhaar_number) /\ ~AADHAAR_REGEX(aadhaar_number.v)
         THEN <<"INVALID_AADHAAR_FORMAT">> ELSE <<>>)
      \o (IF Truthy(dob) /\ strptime(dob.v) = NoDate
            THEN <<"INVALID_DOB_FORMAT">> ELSE <<>>)
      \o (IF Truthy(pincode) /\ ~PINCODE_REGEX(pincode.v)
            THEN <<"INVALID_PINCODE">> ELSE <<>>)
      \o (IF dl_number_invalid(dl_number) THEN <<"INVALID_DL_FORMAT">> ELSE <<>>)
      \o _check_dl_expiry(dl, today)
      \o (IF Truthy(plate_number)
             /\ ~INDIAN_PLATE_REGEX(normalize_vehicle_number(plate_number.v))
            THEN <<"INVALID_PLATE_FORMAT">> ELSE <<>>)
      \o (IF Truthy(rc_number)
             /\ ~INDIAN_PLATE_REGEX(normalize_vehicle_number(rc_number.v))
            THEN <<"INVALID_RC_FORMAT">> ELSE <<>>)

intra_document_consistency(extracted) ==
  LET a_front == Get(GetOr(extracted, "aadhaar_front", EmptyDict), "aadhaar_number")
      a_back == Get(GetOr(extracted, "aadhaar_back", EmptyDict), "aadhaar_number")
  IN  IF Truthy(a_front) /\ Truthy(a_back) /\ a_front.v # a_back.v
      THEN <<"AADHAAR_FRONT_BACK_MISMATCH">> ELSE <<>>

cross_document_consistency(extracted) ==
  LET name_a == Get(GetOr(extracted, "aadhaar_front", EmptyDict), "name")
      name_d == Get(GetOr(extracted, "driving_license", EmptyDict), "name")
      dob_a == Get(GetOr(extracted, "aadhaar_front", EmptyDict), "date_of_birth")
      dob_d == Get(GetOr(extracted, "driving_license", EmptyDict), "date_of_birth")
      plate == Get(GetOr(extracted, "vehicle_plate_photo", EmptyDict), "vehicle_number")
      rc == Get(GetOr(extracted, "rc", EmptyDict), "vehicle_number")
  IN  (IF Truthy(name_a) /\ Truthy(name_d)
            /\ normalize_text(name_a) # normalize_text(name_d)
         THEN <<"NAME_MISMATCH">> ELSE <<>>)
      \o (IF Truthy(dob_a) /\ Truthy(dob_d) /\ dob_a.v # dob_d.v
            THEN <<"DOB_MISMATCH">> ELSE <<>>)
      \o (IF Truthy(plate) /\ Truthy(rc)
             /\ normalize_vehicle_number(plate.v) # normalize_vehicle_number(rc.v)
            THEN <<"PLATE_RC_MISMATCH">> ELSE <<>>)

\* the {plate_number, plate_valid, confidence, reason} tuple
plate_ocr_validation(plate_data) ==
  LET plate_number == Get(plate_data, "vehicle_number")
      confidence == GetOr(plate_data, "confidence", Num(0))
  IN  IF ~Truthy(plate_number)
      THEN [plate_number |-> Null, plate_valid |-> Bool(FALSE),
            confidence |-> Num(0), reason |-> Str(<<"N","O","_","P","L","A","T","E","_","D","E","T","E","C","T","E","D">>)]
      ELSE LET normalized_plate == normalize_vehicle_number(plate_number.v)
               is_valid_format == INDIAN_PLATE_REGEX(normalized_plate)
           IN  [plate_number |-> Str(normalized_plate),
                plate_valid |-> Bool(is_valid_format),
                confidence |-> confidence,
                reason |-> Str(IF is_valid_format THEN <<"V","A","L","I","D">>
                               ELSE <<"I","N","V","A","L","I","D","_","F","O","R","M","A","T">>)]

\* dict.update(other): other's entries replace or extend d's
Update(d, other) ==
  [k \in DOMAIN d \cup DOMAIN other |-> IF k \in DOMAIN other THEN other[k] ELSE d[k]]

\* ------------------------------------------------------------------------
\* pipeline/decision.py: DecisionEngine
\* ------------------------------------------------------------------------
\* the value a masking helper yields where the Python code raises IndexError
Raised == [t |-> "raise"]

XXXX == <<"X","X","X","X">>

\* a masking that keeps the first four digits instead of the last four
mask_aadhaar_first4(aadhaar) ==
  IF ~Truthy(aadhaar) THEN Null
  ELSE LET clean == remove_spaces(aadhaar.v)
       IN  IF Len(clean) # 12 THEN Str(<<"I","N","V","A","L","I","D","_","F","O","R","M","A","T">>)
           ELSE Str(<<"X","X","X","X"," ","X","X","X","X"," ">> \o SubSeq(clean, 1, 4))

mask_aadhaar(aadhaar) ==
  IF ~Truthy(aadhaar) THEN Null
  ELSE LET clean == remove_spaces(aadhaar.v)
       IN  IF Len(clean) # 12 THEN Str(<<"I","N","V","A","L","I","D","_","F","O","R","M","A","T">>)
           ELSE Str(<<"X","X","X","X"," ","X","X","X","X"," ">> \o last_chars(clean, 4))

mask_driving_license(dl_number) ==
  IF ~Truthy(dl_number) THEN Null
  ELSE IF Len(dl_number.v) > 6
       THEN Str(SubSeq(dl_number.v, 1, 2) \o XXXX \o last_chars(dl_number.v, 4))
       ELSE Str(XXXX)

\* mask_name keeping the whole first token instead of its first character
mask_name_whole_token(name) ==
  IF ~Truthy(name) THEN Null
  ELSE LET parts == str_split(name.v)
       IN  IF Len(parts) = 1 THEN Str(parts[1] \o XXXX)
           ELSE IF Len(parts) = 0 THEN Raised
           ELSE Str(parts[1] \o XXXX \o <<" ">> \o parts[Len(parts)])

mask_name(name) ==
  IF ~Truthy(name) THEN Null
  ELSE LET parts == str_split(name.v)
       IN  IF Len(parts) = 1 THEN Str(<<parts[1][1]>> \o XXXX)
           ELSE IF Len(parts) = 0 THEN Raised
           ELSE Str(<<parts[1][1]>> \o XXXX \o <<" ">> \o parts[Len(parts)])

\* _clean_str of _mask_extracted_data, for a non-empty str
_clean_str(val) == collapse_ws(str_strip(first_line(val)))

\* val.splitlines()[0] raises IndexError exactly for the empty string
clean_raises(data) == \E k \in DOMAIN data : IsStr(data[k]) /\ data[k].v = <<>>

\* the in-place cleaning loop over one document's fields
clean_fields(data) ==
  [k \in DOMAIN data |->
     IF IsStr(data[k]) /\ data[k].v # <<>> THEN Str(_clean_str(data[k].v))
     ELSE data[k]]

\* keep the listed fields that are present
Keep(data, fields) == [k \in DOMAIN data \cap fields |-> data[k]]

\* mask_document starting from a copy of all the fields
mask_document_copy_all(doc_type, data) ==
  CASE doc_type \in {"aadhaar_front", "aadhaar_back"} ->
         Update(data,
                [k \in DOMAIN data \cap {"name", "aadhaar_number"} |->
                   IF k = "name" THEN mask_name(data[k]) ELSE mask_aadhaar(data[k])])
    [] doc_type = "driving_license" ->
         Update(data,
                [k \in DOMAIN data \cap {"name", "license_number"} |->
                   IF k = "name" THEN mask_name(data[k])
                   ELSE mask_driving_license(data[k])])
    [] doc_type \in {"vehicle_plate_photo", "rc"} -> data
    [] doc_type = "face_match" -> data
    [] OTHER ->
         [k \in DOMAIN data |->
            IF IsStr(data[k]) /\ Len(data[k].v) > 2
            THEN Str(<<data[k].v[1]>> \o XXXX) ELSE data[k]]

\* the masked copy of one (already cleaned) document
mask_document(doc_type, data) ==
  CASE doc_type \in {"aadhaar_front", "aadhaar_back"} ->
         Update(Keep(data, {"gender", "date_of_birth", "year_of_birth"}),
                [k \in DOMAIN data \cap {"name", "aadhaar_number"} |->
                   IF k = "name" THEN mask_name(data[k]) ELSE mask_aadhaar(data[k])])
    [] doc_type = "driving_license" ->
         Update(Keep(data, {"date_of_birth", "issue_date", "validity_nt",
                            "validity_tr", "issuing_authority"}),
                [k \in DOMAIN data \cap {"name", "license_number"} |->
                   IF k = "name" THEN mask_name(data[k])
                   ELSE mask_driving_license(data[k])])
    [] doc_type \in {"vehicle_plate_photo", "rc"} -> data
    [] doc_type = "face_match" -> data
    [] OTHER ->
         [k \in DOMAIN data |->
            IF IsStr(data[k]) /\ Len(data[k].v) > 2
            THEN Str(<<data[k].v[1]>> \o XXXX) ELSE data[k]]

\* the masked copies of the cleaned documents, with whether a helper raised
mask_cleaned(extracted, cleaned, masked) ==
  [raised |-> \/ \E d \in DOMAIN extracted : clean_raises(extracted[d])
              \/ \E d \in DOMAIN masked :
                   \E k \in DOMAIN masked[d] : masked[d][k].t = "raise",
   cleaned |-> cleaned,
   masked |-> masked]

mask_documents(cleaned) == [d \in DOMAIN cleaned |-> mask_document(d, cleaned[d])]

\* _mask_extracted_data: cleans the caller's maps in place, then masks them.
\* cleaned is the caller's extracted_data as the call leaves it.
_mask_extracted_data(extracted) ==
  LET with_cleaned(cleaned) == mask_cleaned(extracted, cleaned, mask_documents(cleaned))
  IN  with_cleaned([d \in DOMAIN extracted |-> clean_fields(extracted[d])])

\* the characters of a document type name
DocChars(doc_type) ==
  CASE doc_type = "aadhaar_front" -> <<"a","a","d","h","a","a","r","_","f","r","o","n","t">>
    [] doc_type = "aadhaar_back" -> <<"a","a","d","h","a","a","r","_","b","a","c","k">>
    [] doc_type = "driving_license" -> <<"d","r","i","v","i","n","g","_","l","i","c","e","n","s","e">>
    [] doc_type = "vehicle_plate_photo" -> <<"v","e","h","i","c","l","e","_","p","l","a","t","e","_","p","h","o","t","o">>
    [] doc_type = "rc" -> <<"r","c">>
    [] doc_type = "selfie" -> <<"s","e","l","f","i","e">>
    [] doc_type = "face_match" -> <<"f","a","c","e","_","m","a","t","c","h">>

\* sub in s, for two strings
Contains(s, sub) ==
  \E i \in 1..(Len(s) - Len(sub) + 1) : SubSeq(s, i, i + Len(sub) - 1) = sub

RECURSIVE SumSeq(_)
SumSeq(xs) == IF xs = <<>> THEN 0 ELSE Head(xs) + SumSeq(Tail(xs))

\* round(num/den * 100 hundredths) for num >= 0, den > 0
RoundDiv(num, den) == (2 * num + den) \div (2 * den)

\* isinstance(x, (int, float)): bool is an int
IsNumber(x) == x.t \in {"num", "bool"}

NumberOf(x) == IF x.t = "bool" THEN (IF x.b THEN 100 ELSE 0) ELSE x.n

\* the penalties counted for per-field confidences alone
extraction_penalties_fields_only(doc_type, doc_conf) ==
  CASE doc_conf.t = "dict" ->
         Cardinality({f \in DOMAIN doc_conf.d :
                        /\ IsNumber(doc_conf.d[f])
                        /\ NumberOf(doc_conf.d[f]) < MIN_EXTRACTION_CONFIDENCE})
    [] OTHER -> 0

\* the number of 0.1 extraction penalties one document's confidence adds
extraction_penalties(doc_type, doc_conf) ==
  CASE doc_conf.t = "dict" ->
         Cardinality({f \in DOMAIN doc_conf.d :
                        /\ IsNumber(doc_conf.d[f])
                        /\ NumberOf(doc_conf.d[f]) < MIN_EXTRACTION_CONFIDENCE})
    [] IsNumber(doc_conf) ->
         LET threshold ==
               IF Contains(DocChars(doc_type), <<"p","l","a","t","e">>)
                    \/ Contains(DocChars(doc_type), <<"r","c">>)
               THEN MIN_PLATE_CONFIDENCE ELSE MIN_EXTRACTION_CONFIDENCE
         IN  IF NumberOf(doc_conf) < threshold THEN 1 ELSE 0
    [] OTHER -> 0

RECURSIVE SumOver(_, _)
SumOver(f, S) ==
  IF S = {} THEN 0
  ELSE LET x == CHOOSE x \in S : TRUE IN f[x] + SumOver(f, S \ {x})

\* a confidence that counts each distinct issue once
calculate_confidence_distinct(quality_scores, extraction_confidences, issues) ==
  LET n == Len(quality_scores)
      penalties ==
        Cardinality({issues[k] : k \in 1..Len(issues)})
          + SumOver([d \in DOMAIN extraction_confidences |->
                       extraction_penalties(d, extraction_confidences[d])],
                    DOMAIN extraction_confidences)
      num == SumSeq(quality_scores) - 10 * penalties * n
  IN  IF n = 0 \/ num <= 0 THEN 0 ELSE RoundDiv(num, n)

\* quality_scores: the risk scores in document order; the result in hundredths
calculate_confidence(quality_scores, extraction_confidences, issues) ==
  LET n == Len(quality_scores)
      penalties ==
        Len(issues)
          + SumOver([d \in DOMAIN extraction_confidences |->
                       extraction_penalties(d, extraction_confidences[d])],
                    DOMAIN extraction_confidences)
      num == SumSeq(quality_scores) - 10 * penalties * n
  IN  IF n = 0 \/ num <= 0 THEN 0 ELSE RoundDiv(num, n)

\* x in xs, for a list
InList(x, xs) == \E i \in 1..Len(xs) : xs[i] = x

\* look a document up in an ordered dict (a sequence of [k, v] entries)
HasKey(od, key) == \E i \in 1..Len(od) : od[i].k = key

Lookup(od, key) == od[CHOOSE i \in 1..Len(od) : od[i].k = key].v

\* the response a call that raised does not produce
NoResponse == [status |-> "NONE"]

\* plate_info taking plate_valid from the merged validation tuple
plate_info_of_validated(data) ==
  IF "vehicle_plate_photo" \in DOMAIN data
  THEN LET plate_data == data["vehicle_plate_photo"]
       IN  [plate_number |-> Get(plate_data, "vehicle_number"),
            plate_valid |-> GetOr(plate_data, "plate_valid", Bool(FALSE)),
            confidence |-> GetOr(plate_data, "confidence", Num(0))]
  ELSE EmptyDict

\* signals.plate of the response
plate_info_of(data) ==
  IF "vehicle_plate_photo" \in DOMAIN data
  THEN LET plate_data == data["vehicle_plate_photo"]
       IN  [plate_number |-> Get(plate_data, "vehicle_number"),
            plate_valid |-> Bool(Truthy(Get(plate_data, "vehicle_number"))),
            confidence |-> GetOr(plate_data, "confidence", Num(0))]
  ELSE EmptyDict

\* the confidence _build_response computes from the signals
final_confidence_of(quality_results, data, issues) ==
  calculate_confidence(
    [n \in 1..Len(quality_results) |-> quality_results[n].v.risk_score],
    [d \in {d \in DOMAIN data : "confidence" \in DOMAIN data[d]} |->
       data[d]["confidence"]],
    issues)

\* the body of _build_response after the masking call m
response_of(m, status, confidence, reasons, issues, quality_results, extracted_data, format_issues, intra_issues, cross_issues, suggested_reuploads) ==
  [raised |-> m.raised,
   extracted_after |-> IF m.raised THEN extracted_data ELSE m.cleaned,
   response |->
     IF m.raised THEN NoResponse
     ELSE [status |-> status,
           confidence |-> final_confidence_of(quality_results, m.cleaned, issues),
           reasons |-> reasons,
           signals |->
             [quality |-> quality_results,
              issues |-> issues,
              checks |-> [format |-> format_issues,
                          intra |-> intra_issues,
                          cross |-> cross_issues],
              plate |-> plate_info_of(m.cleaned),
              face_match |-> IF "face_match" \in DOMAIN m.cleaned
                             THEN Dict(m.cleaned["face_match"]) ELSE Null,
              suggested_reuploads |-> suggested_reuploads],
           extracted |-> m.masked]]

\* _build_response: the confidence parameter is accepted and never read.
\* [raised, extracted_after, response]: extracted_after is the caller's
\* extracted_data as the call leaves it (cleaned in place by the masking).
_build_response(status, confidence, reasons, issues, quality_results, extracted_data, format_issues, intra_issues, cross_issues, suggested_reuploads) ==
  response_of(_mask_extracted_data(extracted_data), status, confidence, reasons,
              issues, quality_results, extracted_data, format_issues,
              intra_issues, cross_issues, suggested_reuploads)

\* float(x): the hundredths of a numeral d+ or d+.d or d+.dd, -1 for ValueError
parse_float(s) ==
  LET t == str_strip(s)
      dots == {i \in 1..Len(t) : t[i] = "."}
  IN  IF t = <<>> THEN -1
      ELSE IF dots = {} THEN (IF AllIn(t, Digit) THEN 100 * digits_value(t) ELSE -1)
      ELSE LET p == CHOOSE i \in dots : TRUE
               ip == SubSeq(t, 1, p - 1)
               fp == SubSeq(t, p + 1, Len(t))
           IN  IF Cardinality(dots) = 1 /\ ip # <<>> /\ AllIn(ip, Digit)
                    /\ Len(fp) \in {1, 2} /\ AllIn(fp, Digit)
               THEN 100 * digits_value(ip)
                      + (IF Len(fp) = 1 THEN 10 ELSE 1) * digits_value(fp)
               ELSE -1

\* face_conf_of reading a missing confidence key as 0.0
face_conf_of_missing_zero(extracted_data) ==
  IF "face_match" \notin DOMAIN extracted_data
  THEN [some |-> FALSE, v |-> 0]
  ELSE LET c == Get(extracted_data["face_match"], "confidence")
       IN  IF ~Truthy(c) THEN [some |-> TRUE, v |-> 0]
           ELSE IF IsNumber(c) THEN [some |-> TRUE, v |-> NumberOf(c)]
           ELSE IF IsStr(c) /\ parse_float(c.v) >= 0
                THEN [some |-> TRUE, v |-> parse_float(c.v)]
           ELSE [some |-> FALSE, v |-> 0]

\* face_conf of make_decision: [some, v]; some = FALSE is None
face_conf_of(extracted_data) ==
  IF "face_match" \notin DOMAIN extracted_data
       \/ "confidence" \notin DOMAIN extracted_data["face_match"]
  THEN [some |-> FALSE, v |-> 0]
  ELSE LET c == extracted_data["face_match"]["confidence"]
       IN  IF ~Truthy(c) THEN [some |-> TRUE, v |-> 0]
           ELSE IF IsNumber(c) THEN [some |-> TRUE, v |-> NumberOf(c)]
           ELSE IF IsStr(c) /\ parse_float(c.v) >= 0
                THEN [some |-> TRUE, v |-> parse_float(c.v)]
           ELSE [some |-> FALSE, v |-> 0]

\* every document whose quality is bad, rc included
reupload_docs_with_rc(quality_results) ==
  LET bad == SelectSeq(quality_results, LAMBDA e : e.v.quality = "bad")
  IN  [n \in 1..Len(bad) |-> bad[n].k]

\* the documents other than rc whose quality is bad, in dict order
RECURSIVE reupload_docs_of(_)
reupload_docs_of(quality_results) ==
  IF quality_results = <<>> THEN <<>>
  ELSE (IF Head(quality_results).k # "rc" /\ Head(quality_results).v.quality = "bad"
          THEN <<Head(quality_results).k>> ELSE <<>>)
       \o reupload_docs_of(Tail(quality_results))

\* "not same_person" where the code says "same_person is False"
same_person_is_falsy(extracted_data) ==
  /\ "face_match" \in DOMAIN extracted_data
  /\ "same_person" \in DOMAIN extracted_data["face_match"]
  /\ ~Truthy(extracted_data["face_match"]["same_person"])

\* same_person is False
same_person_is_false(extracted_data) ==
  /\ "face_match" \in DOMAIN extracted_data
  /\ "same_person" \in DOMAIN extracted_data["face_match"]
  /\ extracted_data["face_match"]["same_person"].t = "bool"
  /\ ~extracted_data["face_match"]["same_person"].b

critical_format ==
  {"INVALID_AADHAAR_FORMAT", "INVALID_DL_FORMAT",
   "INVALID_PINCODE", "AADHAAR_FRONT_BACK_MISMATCH"}

\* a rule 1 that looks for the non-transport code alone
dl_expired_nt_only(all_issues) == InList("DL_EXPIRED_NT", all_issues)

\* "DL_EXPIRED_NT" in all_issues or "DL_EXPIRED_TR" in all_issues
dl_expired(all_issues) ==
  InList("DL_EXPIRED_NT", all_issues) \/ InList("DL_EXPIRED_TR", all_issues)

\* a rule 2 that compares with 0.5 instead of the configured minimum
face_conf_below_half(face_conf) == face_conf.some /\ face_conf.v < 50

\* face_conf is not None and face_conf < settings.FACE_MIN_CONFIDENCE
face_conf_low(face_conf) == face_conf.some /\ face_conf.v < FACE_MIN_CONFIDENCE

\* all() where the code says any()
all_critical(issues) == \A i \in 1..Len(issues) : issues[i] \in critical_format

\* any(issue in critical_format for issue in format_issues + intra_issues)
has_critical(issues) == \E i \in 1..Len(issues) : issues[i] \in critical_format

\* the arguments the matching rule of make_decision gives _build_response
Rule(status, confidence, reason, issues, suggested_reuploads) ==
  [status |-> status, confidence |-> confidence, reasons |-> <<reason>>,
   issues |-> issues, suggested_reuploads |-> suggested_reuploads]

\* the chain with the cross-issue rule tried before the format/intra rule
first_rule_cross_first(all_issues, face_conf, reupload_docs, quality_results, extracted_data, format_issues, intra_issues, cross_issues) ==
  IF dl_expired_nt_only(all_issues) \/ InList("DL_EXPIRED_TR", all_issues)
  THEN Rule("REJECT", 0, <<"Driving license expired">>, all_issues, <<>>)
  ELSE IF face_conf.some /\ face_conf.v < FACE_MIN_CONFIDENCE
  THEN Rule("REJECT", 0,
            <<"Face match confidence below threshold (", ToString(face_conf.v), ")">>,
            all_issues, <<>>)
  ELSE IF reupload_docs # <<>>
  THEN Rule("REUPLOAD", 0,
            <<"Poor quality images: ">> \o join_comma(reupload_docs),
            all_issues, <<>>)
  ELSE IF same_person_is_falsy(extracted_data)
            /\ extracted_data["face_match"]["same_person"].t = "bool"
  THEN Rule("REUPLOAD", 0, <<"Face mismatch between driving license and selfie">>,
            all_issues, <<"selfie", "driving_license">>)
  ELSE IF cross_issues # <<>>
  THEN Rule("NEEDS_REVIEW", 40, <<"Cross-document inconsistencies">>,
            all_issues, <<>>)
  ELSE IF format_issues # <<>> \/ intra_issues # <<>>
  THEN IF \E i \in 1..Len(format_issues \o intra_issues) :
            (format_issues \o intra_issues)[i] \in critical_format
       THEN Rule("REUPLOAD", 30, <<"Document format or consistency issues">>,
                 all_issues, <<>>)
       ELSE Rule("NEEDS_REVIEW", 50, <<"Minor document issues require review">>,
                 all_issues, <<>>)
  ELSE IF InList("DL_EXPIRY_NOT_READABLE", all_issues)
  THEN Rule("NEEDS_REVIEW", 60, <<"Driving license expiry date not readable">>,
            all_issues, <<>>)
  ELSE Rule("VERIFIED", 90, <<"All verification checks passed">>, <<>>, <<>>)

\* the chain with the expiry-not-readable rule tried before the format/intra rule
first_rule_expiry_first(all_issues, face_conf, reupload_docs, quality_results, extracted_data, format_issues, intra_issues, cross_issues) ==
  IF dl_expired(all_issues)
  THEN Rule("REJECT", 0, <<"Driving license expired">>, all_issues, <<>>)
  ELSE IF face_conf_low(face_conf)
  THEN Rule("REJECT", 0,
            <<"Face match confidence below threshold (", ToString(face_conf.v), ")">>,
            all_issues, <<>>)
  ELSE IF reupload_docs # <<>>
  THEN Rule("REUPLOAD", 0,
            <<"Poor quality images: ">> \o join_comma(reupload_docs),
            all_issues, <<>>)
  ELSE IF same_person_is_false(extracted_data)
  THEN Rule("REUPLOAD", 0, <<"Face mismatch between driving license and selfie">>,
            all_issues, <<"selfie", "driving_license">>)
  ELSE IF InList("DL_EXPIRY_NOT_READABLE", all_issues)
  THEN Rule("NEEDS_REVIEW", 60, <<"Driving license expiry date not readable">>,
            all_issues, <<>>)
  ELSE IF format_issues # <<>> \/ intra_issues # <<>>
  THEN IF has_critical(format_issues \o intra_issues)
       THEN Rule("REUPLOAD", 30, <<"Document format or consistency issues">>,
                 all_issues, <<>>)
       ELSE Rule("NEEDS_REVIEW", 50, <<"Minor document issues require review">>,
                 all_issues, <<>>)
  ELSE IF cross_issues # <<>>
  THEN Rule("NEEDS_REVIEW", 40, <<"Cross-document inconsistencies">>,
            all_issues, <<>>)
  ELSE Rule("VERIFIED", 90, <<"All verification checks passed">>, <<>>, <<>>)

\* the if/return chain of make_decision: the first rule that matches
first_rule(all_issues, face_conf, reupload_docs, quality_results, extracted_data, format_issues, intra_issues, cross_issues) ==
  IF dl_expired(all_issues)
  THEN Rule("REJECT", 0, <<"Driving license expired">>, all_issues, <<>>)
  ELSE IF face_conf_low(face_conf)
  THEN Rule("REJECT", 0,
            <<"Face match confidence below threshold (", ToString(face_conf.v), ")">>,
            all_issues, <<>>)
  ELSE IF reupload_docs # <<>>
  THEN Rule("REUPLOAD", 0,
            <<"Poor quality images: ">> \o join_comma(reupload_docs),
            all_issues, <<>>)
  ELSE IF same_person_is_false(extracted_data)
  THEN Rule("REUPLOAD", 0, <<"Face mismatch between driving license and selfie">>,
            all_issues, <<"selfie", "driving_license">>)
  ELSE IF format_issues # <<>> \/ intra_issues # <<>>
  THEN IF has_critical(format_issues \o intra_issues)
       THEN Rule("REUPLOAD", 30, <<"Document format or consistency issues">>,
                 all_issues, <<>>)
       ELSE Rule("NEEDS_REVIEW", 50, <<"Minor document issues require review">>,
                 all_issues, <<>>)
  ELSE IF cross_issues # <<>>
  THEN Rule("NEEDS_REVIEW", 40, <<"Cross-document inconsistencies">>,
            all_issues, <<>>)
  ELSE IF InList("DL_EXPIRY_NOT_READABLE", all_issues)
  THEN Rule("NEEDS_REVIEW", 60, <<"Driving license expiry date not readable">>,
            all_issues, <<>>)
  ELSE Rule("VERIFIED", 90, <<"All verification checks passed">>, <<>>, <<>>)

\* the return self._build_response(...) of the rule that matched
respond(rule, quality_results, extracted_data, format_issues, intra_issues, cross_issues) ==
  _build_response(rule.status, rule.confidence, rule.reasons, rule.issues,
                  quality_results, extracted_data, format_issues, intra_issues,
                  cross_issues, rule.suggested_reuploads)

\* make_decision: [raised, extracted_after, response]
make_decision(quality_results, extracted_data, format_issues, intra_issues, cross_issues) ==
  respond(first_rule(format_issues \o intra_issues \o cross_issues,
                     face_conf_of(extracted_data),
                     reupload_docs_of(quality_results),
                     quality_results, extracted_data, format_issues,
                     intra_issues, cross_issues),
          quality_results, extracted_data, format_issues, intra_issues,
          cross_issues)

\* ------------------------------------------------------------------------
\* pipeline/quality.py: ImageQualityGate
\* An image is what cv2 measures of it: [decodes, w, h, blur, brightness,
\* contrast, density] (the Laplacian variance, the gray mean and deviation
\* and the Canny edge mean, as whole numbers).
\* ------------------------------------------------------------------------
check_resolution(img) ==
  IF img.w < MIN_IMAGE_WIDTH \/ img.h < MIN_IMAGE_HEIGHT
  THEN [ok |-> FALSE,
        msg |-> <<"Low resolution (", ToString(img.w), "x", ToString(img.h), ")">>]
  ELSE [ok |-> TRUE, msg |-> <<>>]

check_blur(img) ==
  IF img.blur < BLUR_THRESHOLD
  THEN [ok |-> FALSE, msg |-> <<"Blur detected (score=", ToString(img.blur), ")">>]
  ELSE [ok |-> TRUE, msg |-> <<>>]

check_brightness(img) ==
  IF img.brightness < MIN_BRIGHTNESS
  THEN [ok |-> FALSE, msg |-> <<"Too dark (mean=", ToString(img.brightness), ")">>]
  ELSE IF img.brightness > MAX_BRIGHTNESS
  THEN [ok |-> FALSE, msg |-> <<"Too bright (mean=", ToString(img.brightness), ")">>]
  ELSE [ok |-> TRUE, msg |-> <<>>]

check_contrast(img) ==
  IF img.contrast < MIN_CONTRAST
  THEN [ok |-> FALSE, msg |-> <<"Low contrast (std=", ToString(img.contrast), ")">>]
  ELSE [ok |-> TRUE, msg |-> <<>>]

check_text_likelihood(img) ==
  IF img.density < 2
  THEN [ok |-> FALSE, msg |-> <<"Low text likelihood">>]
  ELSE [ok |-> TRUE, msg |-> <<>>]

\* the five checks, in the order evaluate runs them
checks(img) ==
  <<check_resolution(img), check_blur(img), check_brightness(img),
    check_contrast(img), check_text_likelihood(img)>>

RECURSIVE failures_of(_)
failures_of(cs) ==
  IF cs = <<>> THEN <<>>
  ELSE (IF Head(cs).ok THEN <<>> ELSE <<Head(cs).msg>>) \o failures_of(Tail(cs))

\* tier_of with a strict comparison against the caution threshold
tier_of_strict(passed, total) ==
  IF 100 * passed >= QUALITY_THRESHOLD_PROCEED * total
  THEN [quality |-> "good", action |-> "proceed"]
  ELSE IF 100 * passed > QUALITY_THRESHOLD_CAUTION * total
  THEN [quality |-> "risky", action |-> "proceed_with_caution"]
  ELSE [quality |-> "bad", action |-> "reject"]

\* the tier and action for passed checks out of total
tier_of(passed, total) ==
  IF 100 * passed >= QUALITY_THRESHOLD_PROCEED * total
  THEN [quality |-> "good", action |-> "proceed"]
  ELSE IF 100 * passed >= QUALITY_THRESHOLD_CAUTION * total
  THEN [quality |-> "risky", action |-> "proceed_with_caution"]
  ELSE [quality |-> "bad", action |-> "reject"]

evaluate(img) ==
  IF ~img.decodes
  THEN [quality |-> "bad", risk_score |-> 0,
        signals |-> <<<<"Image could not be loaded">>>>,
        recommended_action |-> "reject"]
  ELSE IF img.w < 300 \/ img.h < 300
  THEN [quality |-> "bad", risk_score |-> 0,
        signals |-> <<<<"Extremely low resolution">>>>,
        recommended_action |-> "reject"]
  ELSE LET cs == checks(img)
           passed == Cardinality({i \in 1..Len(cs) : cs[i].ok})
           tier == tier_of(passed, Len(cs))
       IN  [quality |-> tier.quality,
            risk_score |-> RoundDiv(100 * passed, Len(cs)),
            signals |-> failures_of(cs),
            recommended_action |-> tier.action]

\* the assessment run_pipeline makes up for a file that does not exist
file_not_found ==
  [quality |-> "bad", risk_score |-> 0, signals |-> <<<<"File not found">>>>,
   recommended_action |-> "reject"]

\* step 1 of run_pipeline for one document: the assessment it stores
assess(doc_type, file_exists, img) ==
  IF file_exists
  THEN LET quality_result == evaluate(img)
       IN  IF quality_result.quality = "bad" /\ doc_type = "rc"
           THEN [quality_result EXCEPT
                   !.signals = Append(@, <<"Optional RC skipped due to quality">>),
                   !.recommended_action = "ignore"]
           ELSE quality_result
  ELSE file_not_found

\* ------------------------------------------------------------------------
\* pipeline/extractor.py: DocumentExtractor.extract
\* The model's reply is [kind, msg, data]: "raise" (the API call or the file
\* read raised, str(e) = msg), "nojson" (safe_json_parse raised, str(e) = msg)
\* or "json" (the parsed object, data).
\* ------------------------------------------------------------------------
has_prompt(doc_type) ==
  doc_type \in {"aadhaar_front", "aadhaar_back", "driving_license",
                "vehicle_plate_photo", "rc"}

\* [raised, msg, data]
extract(doc_type, reply) ==
  IF ~has_prompt(doc_type)
  THEN [raised |-> TRUE,
        msg |-> <<"U","n","k","n","o","w","n"," ","d","o","c","u","m","e","n","t"," ","t","y","p","e",":"," ">> \o DocChars(doc_type),
        data |-> EmptyDict]
  ELSE IF reply.kind = "raise"
  THEN [raised |-> TRUE, msg |-> reply.msg, data |-> EmptyDict]
  ELSE IF reply.kind = "json"
  THEN [raised |-> FALSE, msg |-> <<>>, data |-> reply.data]
  ELSE [raised |-> FALSE, msg |-> <<>>,
        data |-> Update([f \in DOCUMENT_CONFIGS(doc_type) |-> Null],
                        [confidence |-> Dict(EmptyDict),
                         extraction_error |-> Str(reply.msg)])]

\* step 2 of run_pipeline for one document whose file exists
extracted_or_error(doc_type, reply) ==
  LET r == extract(doc_type, reply)
  IN  IF r.raised
      THEN [extraction_error |-> Str(r.msg), confidence |-> Num(0)]
      ELSE r.data

\* ------------------------------------------------------------------------
\* pipeline/face_match.py: llm_face_match
\* The model's reply is [kind, msg, text, parsed]: "raise", "nojson" (text
\* holds no JSON object, str(e) = msg) or "json" (parsed is the object in text).
\* ------------------------------------------------------------------------
_to_bool(val) ==
  IF val.t = "bool" THEN val
  ELSE IF val.t = "null" THEN Null
  ELSE IF val.t = "num" THEN Bool(val.n # 0)
  ELSE IF val.t = "str"
  THEN LET s == str_lower(str_strip(val.v))
       IN  IF s \in {<<"t","r","u","e">>, <<"y","e","s">>, <<"y">>, <<"1">>} THEN Bool(TRUE)
           ELSE IF s \in {<<"f","a","l","s","e">>, <<"n","o">>, <<"n">>, <<"0">>} THEN Bool(FALSE)
           ELSE Null
  ELSE Null

\* max(0.0, min(1.0, v)) after v > 1 is taken as a percentage
clamp_conf(v) ==
  LET w == IF v > 100 THEN v \div 100 ELSE v
  IN  IF w < 0 THEN 0 ELSE IF w > 100 THEN 100 ELSE w

_to_conf(val) ==
  IF val.t = "null" THEN Num(0)
  ELSE IF val.t = "num" THEN Num(clamp_conf(val.n))
  ELSE IF val.t = "bool" THEN Num(IF val.b THEN 100 ELSE 0)
  ELSE IF val.t = "str"
  THEN LET v == parse_float(SelectSeq(str_strip(val.v), LAMBDA c : c # "%"))
       IN  IF v < 0 THEN Num(0) ELSE Num(clamp_conf(v))
  ELSE Num(0)

\* str(x) for the string or None a JSON field holds
str_or(val, default) == IF val.t = "null" THEN default ELSE val

\* [raised, msg, result]
llm_face_match(reply) ==
  IF reply.kind = "raise"
  THEN [raised |-> TRUE, msg |-> reply.msg, result |-> EmptyDict]
  ELSE IF reply.kind = "nojson"
  THEN [raised |-> FALSE, msg |-> <<>>,
        result |-> [same_person |-> Null, confidence |-> Num(0),
                    risk_level |-> Null,
                    reasoning_summary |-> Str(<<"p","a","r","s","e","_","e","r","r","o","r",":"," ">> \o reply.msg),
                    raw_output |-> Str(reply.text)]]
  ELSE [raised |-> FALSE, msg |-> <<>>,
        result |-> [same_person |-> _to_bool(Get(reply.parsed, "same_person")),
                    confidence |-> _to_conf(Get(reply.parsed, "confidence")),
                    risk_level |-> str_or(Get(reply.parsed, "risk_level"), Null),
                    reasoning_summary |->
                      str_or(Get(reply.parsed, "reasoning_summary"), Str(<<>>)),
                    raw_output |-> Str(reply.text)]]

\* step 4.5 of run_pipeline once the call is made
face_match_or_error(reply) ==
  LET r == llm_face_match(reply)
  IN  IF r.raised THEN [error |-> Str(r.msg)] ELSE r.result

\* ------------------------------------------------------------------------
\* The inputs the model draws
\* ------------------------------------------------------------------------
\* the order in which app.py fills the request
DocOrder ==
  <<"aadhaar_front", "aadhaar_back", "driving_license",
    "vehicle_plate_photo", "selfie", "rc">>

DocTypes == {DocOrder[i] : i \in 1..Len(DocOrder)}

\* the most inputs of one call that depart from the clean request: a document
\* left out, a missing file, an image or a reply that is not the first (the
\* clean one) of its list
MaxFaults == 3

\* the requests: the documents present, in app.py's order
RECURSIVE SubSeqOf(_, _)
SubSeqOf(order, S) ==
  IF order = <<>> THEN <<>>
  ELSE (IF Head(order) \in S THEN <<Head(order)>> ELSE <<>>) \o SubSeqOf(Tail(order), S)

Requests == {SubSeqOf(DocOrder, S) : S \in SUBSET DocTypes}

\* an image on which exactly the checks in passes (1 resolution, 2 blur,
\* 3 brightness, 4 contrast, 5 text likelihood) pass
ImageOf(passes) ==
  [decodes |-> TRUE,
   w |-> IF 1 \in passes THEN 1200 ELSE 640,
   h |-> IF 1 \in passes THEN 900 ELSE 480,
   blur |-> IF 2 \in passes THEN 180 ELSE 40,
   brightness |-> IF 3 \in passes THEN 120 ELSE 20,
   contrast |-> IF 4 \in passes THEN 55 ELSE 8,
   density |-> IF 5 \in passes THEN 6 ELSE 0]

GoodImage == ImageOf(1..5)

RiskyImage == ImageOf({3, 4, 5})

DarkImage == ImageOf({1})

\* a file cv2.imread cannot decode
NoImage ==
  [decodes |-> FALSE, w |-> 0, h |-> 0, blur |-> 0, brightness |-> 0,
   contrast |-> 0, density |-> 0]

\* the images a document file may hold, the clean one first
Images == <<GoodImage, RiskyImage, DarkImage>>

Today == <<2026, 11, 1>>

JsonReply(data) == [kind |-> "json", msg |-> <<>>, data |-> data]

RaiseReply == [kind |-> "raise", msg |-> <<"C","o","n","n","e","c","t","i","o","n"," ","e","r","r","o","r",".">>, data |-> EmptyDict]

NoJsonReply ==
  [kind |-> "nojson", msg |-> <<"N","o"," ","J","S","O","N"," ","f","o","u","n","d"," ","i","n"," ","m","o","d","e","l"," ","o","u","t","p","u","t">>, data |-> EmptyDict]

AadhaarFrontOk ==
  [name |-> Str(<<"A","s","h","a"," ","R","a","o">>), date_of_birth |-> Str(<<"0","5","-","0","3","-","1","9","9","0">>),
   year_of_birth |-> Null, gender |-> Str(<<"F">>),
   aadhaar_number |-> Str(<<"1","2","3","4"," ","5","6","7","8"," ","9","0","1","2">>),
   confidence |-> Dict([name |-> Num(95), aadhaar_number |-> Num(90)])]

AadhaarBackOk ==
  [address |-> Str(<<"1","2"," ","M","G"," ","R","o","a","d","\n","B","e","n","g","a","l","u","r","u">>), pincode |-> Str(<<"5","6","0","0","0","1">>),
   state |-> Str(<<"K","A">>), aadhaar_number |-> Str(<<"1","2","3","4"," ","5","6","7","8"," ","9","0","1","2">>),
   confidence |-> Dict([address |-> Num(85)])]

DrivingLicenseOk ==
  [name |-> Str(<<"A","S","H","A"," "," ","R","A","O">>), license_number |-> Str(<<"K","A","0","1"," ","2","0","1","1","0","0","1","2","3","4","5">>),
   date_of_birth |-> Str(<<"0","5","-","0","3","-","1","9","9","0">>), issue_date |-> Str(<<"0","1","-","1","1","-","2","0","1","1">>),
   validity_nt |-> Str(<<"0","1","-","1","1","-","2","0","3","1">>), validity_tr |-> Null,
   issuing_authority |-> Str(<<"R","T","O">>),
   confidence |-> Dict([license_number |-> Num(90)])]

PlateOk == [vehicle_number |-> Str(<<"K","A","-","0","1"," ","A","B"," ","1","2","3","4">>), confidence |-> Num(90)]

RcOk == [vehicle_number |-> Str(<<"k","a","0","1","a","b","1","2","3","4">>), confidence |-> Num(85)]

\* the replies the extraction model gives for a document type, the clean one first
Replies(doc_type) ==
  CASE doc_type = "aadhaar_front" ->
         <<JsonReply(AadhaarFrontOk),
          JsonReply([AadhaarFrontOk EXCEPT !.gender = Str(<<>>)]),
          RaiseReply>>
    [] doc_type = "aadhaar_back" ->
         <<JsonReply(AadhaarBackOk),
          JsonReply([AadhaarBackOk EXCEPT
                       !.aadhaar_number = Str(<<"1","2","3","4"," ","5","6","7","8"," ","9","0","1","3">>),
                       !.confidence = Dict([address |-> Num(60)])])>>
    [] doc_type = "driving_license" ->
         <<JsonReply(DrivingLicenseOk),
          JsonReply([DrivingLicenseOk EXCEPT !.validity_tr = Str(<<"3","1","-","1","0","-","2","0","2","6">>),
                                             !.name = Str(<<"A","s","h","a"," ","R">>)]),
          NoJsonReply>>
    [] doc_type = "vehicle_plate_photo" ->
         <<JsonReply(PlateOk),
          JsonReply([vehicle_number |-> Null, confidence |-> Num(40)])>>
    [] doc_type = "rc" ->
         <<JsonReply(RcOk),
          JsonReply([vehicle_number |-> Str(<<"K","A","0","1","A","B","1","2","3">>), confidence |-> Num(75)])>>
    [] OTHER -> <<RaiseReply>>

FaceJson(parsed) ==
  [kind |-> "json", msg |-> <<>>, text |-> <<"{","\"","s","a","m","e","_","p","e","r","s","o","n","\"",":"," ",".",".",".","}","\n">>, parsed |-> parsed]

\* the replies the face-similarity model gives, the clean one first
NominalFaceReply ==
  FaceJson([same_person |-> Bool(TRUE), confidence |-> Num(92),
            risk_level |-> Str(<<"l","o","w">>),
            reasoning_summary |-> Str(<<"S","a","m","e"," ","f","a","c","e">>)])

FaceReplies ==
  <<NominalFaceReply,
   FaceJson([same_person |-> Str(<<"N","o">>), confidence |-> Num(7000),
             risk_level |-> Str(<<"h","i","g","h">>), reasoning_summary |-> Str(<<"D","i","f","f","e","r","s">>)]),
   FaceJson([same_person |-> Bool(TRUE), confidence |-> Str(<<"5","5","%">>),
             risk_level |-> Null, reasoning_summary |-> Str(<<"U","n","s","u","r","e">>)]),
   FaceJson([same_person |-> Bool(TRUE), confidence |-> Num(90)]),
   [kind |-> "raise", msg |-> <<"R","e","q","u","e","s","t"," ","t","i","m","e","d"," ","o","u","t",".">>, text |-> <<>>, parsed |-> EmptyDict]>>

\* ------------------------------------------------------------------------
\* pipeline/run_pipeline.py: one call of run_pipeline, step by step
\* ------------------------------------------------------------------------
VARIABLES
  pc,              \* the step the call is at
  docs,            \* the request's document types, in dict order
  files,           \* os.path.exists of each document's path
  i,               \* the position of the running loop in docs
  quality_results, \* ordered dict: document type -> assessment
  extracted_data,  \* dict: document type (or "face_match") -> fields
  format_issues,
  intra_issues,
  cross_issues,
  result,          \* the decision, once made
  faults,          \* how many inputs drawn so far depart from the clean request
  arg,             \* the argument of a function called on its own (for
                   \* make_decision: extracted_data as passed, before the cleaning)
  ret,             \* what that call returned
  face_calls,      \* the calls of llm_face_match made so far: "json" for one
                   \* that returned, "raise" for one that raised
  temp_dir         \* verify_kyc's temporary directory: "None" before mkdtemp,
                   \* "created" while it exists, "removed" after rmtree

vars ==
  <<pc, docs, files, i, quality_results, extracted_data, format_issues,
    intra_issues, cross_issues, result, faults, arg, ret, face_calls,
    temp_dir>>

Init ==
  /\ pc = "quality"
  /\ docs \in Requests
  /\ files \in [DocTypes -> BOOLEAN]
  /\ \A d \in DocTypes : ~InList(d, docs) => ~files[d]
  /\ faults = (Len(DocOrder) - Len(docs))
                + Cardinality({d \in DocTypes : InList(d, docs) /\ ~files[d]})
  /\ faults <= MaxFaults
  /\ i = 1
  /\ quality_results = <<>>
  /\ extracted_data = EmptyDict
  /\ format_issues = <<>>
  /\ intra_issues = <<>>
  /\ cross_issues = <<>>
  /\ result = NoResponse
  /\ arg = Null
  /\ ret = Null
  /\ face_calls = <<>>
  /\ temp_dir = "None"

\* step 1, one document: assess its image or note the missing file
Assess ==
  /\ pc = "quality"
  /\ i <= Len(docs)
  /\ \E n \in 1..Len(Images) :
       /\ faults' = faults + (IF files[docs[i]] /\ n > 1 THEN 1 ELSE 0)
       /\ faults' <= MaxFaults
       /\ quality_results' =
            Append(quality_results,
                   [k |-> docs[i], v |-> assess(docs[i], files[docs[i]], Images[n])])
  /\ i' = i + 1
  /\ UNCHANGED <<pc, docs, files, extracted_data, format_issues, intra_issues,
                 cross_issues, result>>
  /\ UNCHANGED <<arg, ret, face_calls, temp_dir>>

AssessDone ==
  /\ pc = "quality"
  /\ i > Len(docs)
  /\ pc' = "extract"
  /\ i' = 1
  /\ UNCHANGED <<docs, files, quality_results, extracted_data, format_issues,
                 intra_issues, cross_issues, result, faults>>
  /\ UNCHANGED <<arg, ret, face_calls, temp_dir>>

\* step 2, one document: extract its fields if its file exists
Extract ==
  /\ pc = "extract"
  /\ i <= Len(docs)
  /\ IF files[docs[i]]
     THEN \E n \in 1..Len(Replies(docs[i])) :
            /\ faults' = faults + (IF n > 1 THEN 1 ELSE 0)
            /\ faults' <= MaxFaults
            /\ extracted_data' =
                 Update(extracted_data,
                        docs[i] :> extracted_or_error(docs[i], Replies(docs[i])[n]))
     ELSE UNCHANGED <<extracted_data, faults>>
  /\ i' = i + 1
  /\ UNCHANGED <<pc, docs, files, quality_results, format_issues, intra_issues,
                 cross_issues, result>>
  /\ UNCHANGED <<arg, ret, face_calls, temp_dir>>

\* ExtractDone leaving the loop of step 2 before its last document
ExtractDone_early ==
  /\ pc = "extract"
  /\ pc' = "checks"
  /\ UNCHANGED <<docs, files, i, quality_results, extracted_data, format_issues,
                 intra_issues, cross_issues, result, faults>>
  /\ UNCHANGED <<arg, ret, face_calls, temp_dir>>

ExtractDone ==
  /\ pc = "extract"
  /\ i > Len(docs)
  /\ pc' = "checks"
  /\ UNCHANGED <<docs, files, i, quality_results, extracted_data, format_issues,
                 intra_issues, cross_issues, result, faults>>
  /\ UNCHANGED <<arg, ret, face_calls, temp_dir>>

\* step 3: the three consistency passes
RunChecks ==
  /\ pc = "checks"
  /\ format_issues' = format_checks(extracted_data, Today)
  /\ intra_issues' = intra_document_consistency(extracted_data)
  /\ cross_issues' = cross_document_consistency(extracted_data)
  /\ pc' = "plate"
  /\ UNCHANGED <<docs, files, i, quality_results, extracted_data, result, faults>>
  /\ UNCHANGED <<arg, ret, face_calls, temp_dir>>

\* step 4: merge the plate validation into the plate document's fields
PlateValidation ==
  /\ pc = "plate"
  /\ extracted_data' =
       IF "vehicle_plate_photo" \in DOMAIN extracted_data
       THEN [extracted_data EXCEPT
               !["vehicle_plate_photo"] = Update(@, plate_ocr_validation(@))]
       ELSE extracted_data
  /\ pc' = "face"
  /\ UNCHANGED <<docs, files, i, quality_results, format_issues, intra_issues,
                 cross_issues, result, faults>>
  /\ UNCHANGED <<arg, ret, face_calls, temp_dir>>

\* face_match_due asking in addition for a driving license that passed the gate
face_match_due_not_bad ==
  /\ InList("selfie", docs)
  /\ InList("driving_license", docs)
  /\ files["selfie"]
  /\ files["driving_license"]
  /\ Lookup(quality_results, "driving_license").quality # "bad"

\* the condition under which step 4.5 calls llm_face_match
face_match_due ==
  /\ InList("selfie", docs)
  /\ InList("driving_license", docs)
  /\ files["selfie"]
  /\ files["driving_license"]

\* step 4.5: the face similarity check
FaceMatch ==
  /\ pc = "face"
  /\ IF face_match_due
     THEN \E n \in 1..Len(FaceReplies) :
            /\ faults' = faults + (IF n > 1 THEN 1 ELSE 0)
            /\ faults' <= MaxFaults
            /\ extracted_data' =
                 Update(extracted_data,
                        "face_match" :> face_match_or_error(FaceReplies[n]))
            /\ face_calls' = Append(face_calls, FaceReplies[n].kind)
     ELSE UNCHANGED <<extracted_data, faults, face_calls>>
  /\ pc' = "decide"
  /\ UNCHANGED <<docs, files, i, quality_results, format_issues, intra_issues,
                 cross_issues, result>>
  /\ UNCHANGED <<arg, ret, temp_dir>>

\* what the call of make_decision leaves behind: r is [raised,
\* extracted_after, response]
Returned(r) ==
  /\ pc' = IF r.raised THEN "raised" ELSE "metadata"
  /\ extracted_data' = r.extracted_after
  /\ result' = r.response

\* step 5: the decision; an exception leaves run_pipeline
Decide ==
  /\ pc = "decide"
  /\ Returned(make_decision(quality_results, extracted_data, format_issues,
                            intra_issues, cross_issues))
  /\ UNCHANGED <<docs, files, i, quality_results, format_issues, intra_issues,
                 cross_issues, faults>>
  /\ UNCHANGED <<arg, ret, face_calls, temp_dir>>

\* the pipeline_metadata run_pipeline attaches
pipeline_metadata ==
  [documents_processed |-> docs,
   quality_summary |->
     [n \in 1..Len(quality_results) |->
        [k |-> quality_results[n].k, v |-> quality_results[n].v.quality]],
   extraction_summary |->
     [d \in DOMAIN extracted_data |->
        IF "extraction_error" \notin DOMAIN extracted_data[d]
        THEN "success" ELSE "failed"]]

Metadata ==
  /\ pc = "metadata"
  /\ result' = Update(result, [pipeline_metadata |-> pipeline_metadata])
  /\ pc' = "done"
  /\ UNCHANGED <<docs, files, i, quality_results, extracted_data, format_issues,
                 intra_issues, cross_issues, faults>>
  /\ UNCHANGED <<arg, ret, face_calls, temp_dir>>

Next ==
  \/ Assess
  \/ AssessDone
  \/ Extract
  \/ ExtractDone
  \/ RunChecks
  \/ PlateValidation
  \/ FaceMatch
  \/ Decide
  \/ Metadata

Spec == Init /\ [][Next]_vars

\* ------------------------------------------------------------------------
\* make_decision called on its own: the arguments are drawn, not computed
\* ------------------------------------------------------------------------
\* the most issues the three lists of one call hold together
MaxIssues == 2

\* the (format, intra, cross) lists over codes with at most n issues in all
IssueTriples(codes, n) ==
  UNION {[1..a -> codes] \X [1..b -> codes] \X [1..c -> codes] :
           <<a, b, c>> \in {l \in (0..n) \X (0..n) \X (0..n) : l[1] + l[2] + l[3] <= n}}

\* one code of each kind the rules tell apart
RuleCodes ==
  {"DL_EXPIRED_NT", "DL_EXPIRED_TR", "DL_EXPIRY_NOT_READABLE", "INVALID_PINCODE",
   "INVALID_PLATE_FORMAT", "NAME_MISMATCH"}

\* an ordered dict of assessments: document types and the checks each image passes
\* (a negative count stands for a missing file)
QualityOf(doc_types, passed) ==
  [n \in 1..Len(doc_types) |->
     [k |-> doc_types[n],
      v |-> IF passed[n] < 0 THEN assess(doc_types[n], FALSE, NoImage)
            ELSE assess(doc_types[n], TRUE, ImageOf(1..passed[n]))]]

Mandatory ==
  <<"aadhaar_front", "aadhaar_back", "driving_license", "vehicle_plate_photo", "selfie">>

\* quality_results of the rule cases: all good; rc bad; one risky; a missing
\* selfie and a bad aadhaar_back; nothing but a bad rc
QualityCases ==
  <<QualityOf(Mandatory, <<5, 5, 5, 5, 5>>),
    QualityOf(DocOrder, <<5, 4, 5, 5, 5, 1>>),
    QualityOf(Mandatory, <<5, 5, 3, 5, 5>>),
    QualityOf(Mandatory, <<5, 1, 5, 5, -1>>),
    QualityOf(<<"rc">>, <<0>>)>>

\* extracted_data["face_match"] of the rule cases; the first stands for no entry
FaceCases ==
  <<EmptyDict,
    [error |-> Str(<<"R","e","q","u","e","s","t"," ","t","i","m","e","d"," ","o","u","t",".">>)],
    [same_person |-> Bool(TRUE), confidence |-> Num(90)],
    [same_person |-> Bool(TRUE), confidence |-> Num(50)],
    [same_person |-> Bool(FALSE), confidence |-> Num(90)],
    [same_person |-> Bool(FALSE), confidence |-> Num(59)],
    [same_person |-> Null, confidence |-> Num(60)],
    [same_person |-> Bool(TRUE), confidence |-> Null],
    [same_person |-> Bool(FALSE)],
    [same_person |-> Bool(TRUE), confidence |-> Str(<<"0",".","5">>)]>>

WithFace(extracted, n) ==
  IF n = 1 THEN extracted ELSE Update(extracted, "face_match" :> FaceCases[n])

\* the codes of the confidence cases
PenaltyCodes == {"INVALID_PLATE_FORMAT", "NAME_MISMATCH"}

\* quality_results of the confidence cases: up to three documents, each passing
\* 1, 3, 4 or 5 checks
ScoreCases ==
  {QualityOf(SubSeq(<<"aadhaar_front", "vehicle_plate_photo", "rc">>, 1, Len(p)), p) :
     p \in UNION {[1..k -> {1, 3, 4, 5}] : k \in 1..3}}

\* extracted_data of the confidence cases: per-field and scalar confidences on
\* both sides of their thresholds
ConfidenceCases ==
  <<[aadhaar_front |-> AadhaarFrontOk],
    [aadhaar_front |->
       [AadhaarFrontOk EXCEPT
          !.confidence = Dict([name |-> Num(69), aadhaar_number |-> Num(69)])]],
    [aadhaar_front |->
       [AadhaarFrontOk EXCEPT
          !.confidence = Dict([name |-> Num(69), aadhaar_number |-> Null])],
     vehicle_plate_photo |-> [PlateOk EXCEPT !.confidence = Num(75)],
     rc |-> [RcOk EXCEPT !.confidence = Num(79)]],
    [vehicle_plate_photo |-> [PlateOk EXCEPT !.confidence = Num(80)],
     selfie |-> [extraction_error |-> Str(<<"U","n","k","n","o","w","n"," ","d","o","c","u","m","e","n","t"," ","t","y","p","e",":"," ","s","e","l","f","i","e">>),
                 confidence |-> Num(0)]],
    [driving_license |-> [DrivingLicenseOk EXCEPT !.confidence = Num(69)],
     face_match |-> [same_person |-> Bool(TRUE), confidence |-> Num(65)]],
    [aadhaar_back |-> [address |-> Str(<<"1","2"," ","M","G"," ","R","o","a","d">>)],
     face_match |-> [same_person |-> Bool(FALSE), confidence |-> Num(75)]]>>

\* the arguments of a call that exercises the rules
RuleInputs ==
  /\ \E q \in 1..Len(QualityCases) : quality_results = QualityCases[q]
  /\ \E f \in 1..Len(FaceCases) :
       extracted_data = WithFace([aadhaar_front |-> AadhaarFrontOk], f)
  /\ \E t \in IssueTriples(RuleCodes, MaxIssues) :
       /\ format_issues = t[1]
       /\ intra_issues = t[2]
       /\ cross_issues = t[3]

\* the arguments of a call that exercises the confidence formula
ConfidenceInputs ==
  /\ quality_results \in ScoreCases
  /\ \E e \in 1..Len(ConfidenceCases) : extracted_data = ConfidenceCases[e]
  /\ \E t \in IssueTriples(PenaltyCodes, MaxIssues) :
       /\ format_issues = t[1]
       /\ intra_issues = t[2]
       /\ cross_issues = t[3]

InitDecision ==
  /\ pc = "decide"
  /\ docs = <<>>
  /\ files = [d \in DocTypes |-> FALSE]
  /\ i = 1
  /\ faults = 0
  /\ result = NoResponse
  /\ ret = Null
  /\ face_calls = <<>>
  /\ temp_dir = "None"
  /\ (RuleInputs \/ ConfidenceInputs)
  /\ arg = extracted_data

SpecDecision == InitDecision /\ [][Decide]_vars

\* ------------------------------------------------------------------------
\* the masking functions called on their own
\* ------------------------------------------------------------------------
\* four-digit groups an Aadhaar number is written in
DigitGroups == {<<"1","2","3","4">>, <<"5","6","7","8">>, <<"9","0","1","2">>, <<"9","0","1","3">>, <<"0","0","0","0">>}

\* twelve digits in 4-4-4 groups
WellFormedAadhaar ==
  {g[1] \o <<" ">> \o g[2] \o <<" ">> \o g[3] :
     g \in DigitGroups \X DigitGroups \X DigitGroups}

\* other strings the extractor may report as a number or a name
OtherStrings ==
  {<<>>, <<"1","2","3","4","5","6","7","8","9","0","1","2">>, <<"1","2","3","4"," ","5","6","7","8"," ","9","0","1">>, <<"1","2","3","4","-","5","6","7","8","-","9","0","1","2">>,
   <<"A","B","C","D"," ","E","F","G","H"," ","I","J","K","L">>, <<"1","2"," ","3","4","5","6","7"," ","8","9","0","1","2">>, <<"K","A","0","1","2","0","2","0","1","2","3","4","5","6","7">>, <<"K","A","0","1"," ","2","0","2","0"," ","1","2","3","4","5","6","7">>,
   <<"K","A","0","1","2","0">>, <<"A","s","h","a"," ","R","a","o">>, <<"A","s","h","a">>, <<"A","s","h","a"," ","D","e","v","i"," ","R","a","o">>, <<" ">>, <<" "," ","A","s","h","a"," "," ","R","a","o"," ">>}

MaskInputs ==
  {Null} \cup {Str(s) : s \in WellFormedAadhaar \cup OtherStrings}

\* the variables of run_pipeline, at rest
NoPipeline ==
  /\ docs = <<>>
  /\ files = [d \in DocTypes |-> FALSE]
  /\ i = 1
  /\ faults = 0
  /\ quality_results = <<>>
  /\ extracted_data = EmptyDict
  /\ format_issues = <<>>
  /\ intra_issues = <<>>
  /\ cross_issues = <<>>
  /\ result = NoResponse
  /\ face_calls = <<>>
  /\ temp_dir = "None"

InitMask ==
  /\ pc = "mask"
  /\ arg \in MaskInputs
  /\ ret = Null
  /\ NoPipeline

MaskAadhaar ==
  /\ pc = "mask"
  /\ ret' = mask_aadhaar(arg)
  /\ pc' = "mask_aadhaar"
  /\ UNCHANGED <<docs, files, i, quality_results, extracted_data, format_issues,
                 intra_issues, cross_issues, result, faults, arg,
                 face_calls, temp_dir>>

MaskDrivingLicense ==
  /\ pc = "mask"
  /\ ret' = mask_driving_license(arg)
  /\ pc' = "mask_driving_license"
  /\ UNCHANGED <<docs, files, i, quality_results, extracted_data, format_issues,
                 intra_issues, cross_issues, result, faults, arg,
                 face_calls, temp_dir>>

MaskName ==
  /\ pc = "mask"
  /\ ret' = mask_name(arg)
  /\ pc' = "mask_name"
  /\ UNCHANGED <<docs, files, i, quality_results, extracted_data, format_issues,
                 intra_issues, cross_issues, result, faults, arg,
                 face_calls, temp_dir>>

NextMask ==
  \/ MaskAadhaar
  \/ MaskDrivingLicense
  \/ MaskName

SpecMask == InitMask /\ [][NextMask]_vars

\* ------------------------------------------------------------------------
\* The decision rules as the specification words them, over the arguments
\* of a call: the three issue lists, quality_results and the extracted data
\* ------------------------------------------------------------------------
IssueLists == format_issues \o intra_issues \o cross_issues

Listed(code) == \E n \in 1..Len(IssueLists) : IssueLists[n] = code

\* rule 1: a DL-expired issue is present
ExpiredListed == Listed("DL_EXPIRED_NT") \/ Listed("DL_EXPIRED_TR")

\* rule 2: a face confidence was computed and is below the minimum
FaceBelowMinimum(data) ==
  /\ "face_match" \in DOMAIN data
  /\ "confidence" \in DOMAIN data["face_match"]
  /\ LET c == data["face_match"]["confidence"]
     IN  \/ c.t = "null"
         \/ c.t = "num" /\ c.n < FACE_MIN_CONFIDENCE
         \/ c.t = "str" /\ parse_float(c.v) \in 0..(FACE_MIN_CONFIDENCE - 1)

\* rule 3: the documents other than rc whose quality is bad
BadMandatory ==
  {quality_results[n].k : n \in {m \in 1..Len(quality_results) :
                                   /\ quality_results[m].k # "rc"
                                   /\ quality_results[m].v.quality = "bad"}}

\* rule 4: the face match says same_person is false
SamePersonFalse(data) ==
  /\ "face_match" \in DOMAIN data
  /\ "same_person" \in DOMAIN data["face_match"]
  /\ data["face_match"]["same_person"].t = "bool"
  /\ data["face_match"]["same_person"].b = FALSE

CriticalCodes ==
  {"INVALID_AADHAAR_FORMAT", "INVALID_DL_FORMAT", "INVALID_PINCODE",
   "AADHAAR_FRONT_BACK_MISMATCH"}

CriticalListed ==
  \/ \E n \in 1..Len(format_issues) : format_issues[n] \in CriticalCodes
  \/ \E n \in 1..Len(intra_issues) : intra_issues[n] \in CriticalCodes

\* the number of the first rule that matches, 1 to 8
MatchingRule(data) ==
  IF ExpiredListed THEN 1
  ELSE IF FaceBelowMinimum(data) THEN 2
  ELSE IF BadMandatory # {} THEN 3
  ELSE IF SamePersonFalse(data) THEN 4
  ELSE IF format_issues # <<>> \/ intra_issues # <<>> THEN 5
  ELSE IF cross_issues # <<>> THEN 6
  ELSE IF Listed("DL_EXPIRY_NOT_READABLE") THEN 7
  ELSE 8

StatusOfRule(rule) ==
  IF rule \in {1, 2} THEN "REJECT"
  ELSE IF rule \in {3, 4} THEN "REUPLOAD"
  ELSE IF rule = 5 THEN (IF CriticalListed THEN "REUPLOAD" ELSE "NEEDS_REVIEW")
  ELSE IF rule \in {6, 7} THEN "NEEDS_REVIEW"
  ELSE "VERIFIED"

\* the confidence literal the rule passes to _build_response, in hundredths
LiteralOfRule(rule) ==
  IF rule \in {1, 2, 3, 4} THEN 0
  ELSE IF rule = 5 THEN (IF CriticalListed THEN 30 ELSE 50)
  ELSE IF rule = 6 THEN 40
  ELSE IF rule = 7 THEN 60
  ELSE 90

\* make_decision, called on its own, has returned
Answered == pc = "metadata" /\ docs = <<>>

\* run_pipeline has the decision in hand
Decided == pc \in {"metadata", "done"} /\ docs # <<>>

\* C1: whenever DL_EXPIRED_NT or DL_EXPIRED_TR is in any of the three issue
\* lists, make_decision returns REJECT with the one reason "Driving license
\* expired", whatever the quality, the face match and the other issues are.
C1_ExpiredRejects ==
  Answered /\ ExpiredListed
    => /\ result.status = "REJECT"
       /\ result.reasons = << <<"Driving license expired">> >>

\* an expired code in the cross list, a bad mandatory document and a face
\* mismatch together, and the answer is REJECT
C1_Witness ==
  /\ Answered
  /\ \E n \in 1..Len(cross_issues) : cross_issues[n] = "DL_EXPIRED_TR"
  /\ BadMandatory # {}
  /\ SamePersonFalse(arg)
  /\ result.status = "REJECT"

\* C2: whenever the face_match entry carries a confidence below
\* FACE_MIN_CONFIDENCE, make_decision returns REJECT, whatever the quality
\* tiers, same_person and the issues are; a bad document does not turn it
\* into REUPLOAD.
C2_LowFaceRejects ==
  Answered /\ FaceBelowMinimum(arg) => result.status = "REJECT"

\* confidence 0.59, no expired licence, a bad mandatory document: REJECT by rule 2
C2_Witness ==
  /\ Answered
  /\ ~ExpiredListed
  /\ FaceBelowMinimum(arg)
  /\ arg["face_match"]["confidence"].t = "num"
  /\ arg["face_match"]["confidence"].n = 59
  /\ BadMandatory # {}
  /\ result.status = "REJECT"
  /\ result.reasons # << <<"Driving license expired">> >>

\* C3: the status is that of the first rule that matches in the order 1 to 8,
\* and it is VERIFIED exactly when none of the conditions 1 to 7 holds.
C3_FirstMatchingRule ==
  Answered
    => /\ result.status = StatusOfRule(MatchingRule(arg))
       /\ (result.status = "VERIFIED")
            <=> ~( \/ ExpiredListed
                   \/ FaceBelowMinimum(arg)
                   \/ BadMandatory # {}
                   \/ SamePersonFalse(arg)
                   \/ format_issues # <<>>
                   \/ intra_issues # <<>>
                   \/ cross_issues # <<>>
                   \/ Listed("DL_EXPIRY_NOT_READABLE") )

\* the five mandatory documents good, no issue, face match {true, 0.9}: VERIFIED
C3_Witness ==
  /\ Answered
  /\ Len(quality_results) = 5
  /\ \A n \in 1..5 : quality_results[n].v.quality = "good"
  /\ IssueLists = <<>>
  /\ "face_match" \in DOMAIN arg
  /\ DOMAIN arg["face_match"] = {"same_person", "confidence"}
  /\ arg["face_match"]["same_person"].t = "bool"
  /\ arg["face_match"]["same_person"].b
  /\ arg["face_match"]["confidence"].t = "num"
  /\ arg["face_match"]["confidence"].n = 90
  /\ result.status = "VERIFIED"

\* C6: when rules 1 to 3 do not match and same_person is false, the status is
\* REUPLOAD and suggested_reuploads is [selfie, driving_license]; the response
\* of every other rule has an empty suggested_reuploads.
C6_SuggestedReuploads ==
  Answered
    => IF MatchingRule(arg) = 4
       THEN /\ result.status = "REUPLOAD"
            /\ result.signals.suggested_reuploads = <<"selfie", "driving_license">>
       ELSE result.signals.suggested_reuploads = <<>>

\* a face mismatch with format issues present as well
C6_Witness ==
  /\ Answered
  /\ SamePersonFalse(arg)
  /\ ~ExpiredListed /\ ~FaceBelowMinimum(arg) /\ BadMandatory = {}
  /\ format_issues # <<>>
  /\ result.signals.suggested_reuploads = <<"selfie", "driving_license">>

\* ------------------------------------------------------------------------
\* The confidence formula as the specification words it, in hundredths
\* ------------------------------------------------------------------------
RiskTotal ==
  SumSeq([n \in 1..Len(quality_results) |-> quality_results[n].v.risk_score])

\* the (entry, field) pairs whose per-field confidence is below the minimum
LowFields(data) ==
  UNION {{<<d, f>> : f \in {g \in DOMAIN data[d]["confidence"].d :
                              /\ data[d]["confidence"].d[g].t = "num"
                              /\ data[d]["confidence"].d[g].n < MIN_EXTRACTION_CONFIDENCE}} :
           d \in {e \in DOMAIN data : /\ "confidence" \in DOMAIN data[e]
                                      /\ data[e]["confidence"].t = "dict"}}

\* the entries whose scalar confidence is below their threshold
LowScalars(data) ==
  {d \in DOMAIN data :
     /\ "confidence" \in DOMAIN data[d]
     /\ data[d]["confidence"].t = "num"
     /\ data[d]["confidence"].n <
          (IF d \in {"vehicle_plate_photo", "rc"}
           THEN MIN_PLATE_CONFIDENCE ELSE MIN_EXTRACTION_CONFIDENCE)}

PenaltyCount(data) ==
  Len(IssueLists) + Cardinality(LowFields(data)) + Cardinality(LowScalars(data))

\* c is max(0, mean risk score - 0.1 x penalties) rounded to two decimals
IsFormulaValue(c, data) ==
  LET n == Len(quality_results)
      x == RiskTotal - 10 * PenaltyCount(data) * n
  IN  IF x <= 0 THEN c = 0
      ELSE /\ 2 * (c * n - x) <= n
           /\ 2 * (x - c * n) <= n

\* C8: whichever rule fires, the confidence of the response is
\* max(0, mean risk_score - 0.1 x issues (duplicates counted) - 0.1 x low
\* per-field and scalar extraction confidences), rounded to two decimals, and
\* lies in [0,1]. The entries counted are all those of extracted_data that
\* carry a confidence, the face_match entry and failed extractions included.
\* The value is the formula's even where it equals the literal of the rule.
C8_ConfidenceFormula ==
  Answered
    => /\ result.confidence \in 0..100
       /\ IsFormulaValue(result.confidence, arg)

\* C8 as stated: the formula's value, and never the literal of the rule that fired
C8_NeverTheLiteral ==
  Answered
    => /\ result.confidence \in 0..100
       /\ IsFormulaValue(result.confidence, arg)
       /\ result.confidence # LiteralOfRule(MatchingRule(arg))

\* two issues, a low field and a low scalar confidence, and a value that is
\* neither 0 nor the literal
C8_Witness ==
  /\ Answered
  /\ Len(IssueLists) = 2
  /\ LowFields(arg) # {}
  /\ LowScalars(arg) # {}
  /\ Len(quality_results) = 3
  /\ result.confidence > 0
  /\ result.confidence # LiteralOfRule(MatchingRule(arg))

\* ------------------------------------------------------------------------
\* Masking
\* ------------------------------------------------------------------------
\* twelve digits in groups of four, a space between the groups
IsGrouped(s) ==
  /\ Len(s) = 14
  /\ \A n \in 1..14 : IF n \in {5, 10} THEN s[n] = " " ELSE s[n] \in Digit

\* C10: for a well-formed Aadhaar number (twelve digits in 4-4-4 groups),
\* mask_aadhaar returns "XXXX XXXX " followed by exactly the last four digits
\* of the input; the places of the first eight digits hold no digit.
C10_MaskAadhaar ==
  pc = "mask_aadhaar" /\ arg.t = "str" /\ IsGrouped(arg.v)
    => /\ ret.t = "str"
       /\ ret.v = <<"X", "X", "X", "X", " ", "X", "X", "X", "X", " ">>
                    \o SubSeq(arg.v, 11, 14)
       /\ \A n \in 1..10 : ret.v[n] \notin Digit

\* "1234 5678 9012" masked as "XXXX XXXX 9012"
C10_Witness ==
  /\ pc = "mask_aadhaar"
  /\ arg.t = "str"
  /\ arg.v = <<"1","2","3","4"," ","5","6","7","8"," ","9","0","1","2">>
  /\ ret.t = "str"
  /\ ret.v = <<"X","X","X","X"," ","X","X","X","X"," ","9","0","1","2">>

\* ------------------------------------------------------------------------
\* run_pipeline
\* ------------------------------------------------------------------------
\* the documents of the request whose file does not exist
MissingFiles == {d \in DocTypes : InList(d, docs) /\ ~files[d]}

\* the document names a reason lists after its headline
NamedIn(reason) == {reason[n] : n \in 2..Len(reason)} \ {", "}

\* C4: with no DL-expired issue and no face confidence below the minimum, a
\* document other than rc with quality bad (a failed evaluation, or the
\* "File not found" assessment of a missing file) makes the status REUPLOAD,
\* and the single reason names exactly the bad documents other than rc.
C4_BadDocumentReupload ==
  Decided
    => /\ \A d \in MissingFiles :
            /\ Lookup(quality_results, d).quality = "bad"
            /\ Lookup(quality_results, d).signals = << <<"File not found">> >>
       /\ ~ExpiredListed /\ ~FaceBelowMinimum(extracted_data) /\ BadMandatory # {}
            => /\ result.status = "REUPLOAD"
               /\ Len(result.reasons) = 1
               /\ result.reasons[1][1] = "Poor quality images: "
               /\ NamedIn(result.reasons[1]) = BadMandatory

\* one mandatory file missing, another failing its evaluation, rc bad as well
C4_Witness ==
  /\ pc = "done"
  /\ MissingFiles \ {"rc"} # {}
  /\ BadMandatory \ MissingFiles # {}
  /\ HasKey(quality_results, "rc")
  /\ Lookup(quality_results, "rc").quality = "bad"
  /\ result.status = "REUPLOAD"
  /\ NamedIn(result.reasons[1]) = BadMandatory

\* quality_results with the rc assessment replaced by a
WithRc(a) ==
  [n \in 1..Len(quality_results) |->
     IF quality_results[n].k = "rc" THEN [k |-> "rc", v |-> a]
     ELSE quality_results[n]]

\* the assessments rc can get: one per image, and that of a missing file
RcAssessments ==
  {assess("rc", TRUE, Images[n]) : n \in 1..Len(Images)}
    \cup {assess("rc", FALSE, NoImage)}

\* the outcome of the decision with rc assessed as a: raised, or the status
OutcomeWithRc(a) ==
  LET r == make_decision(WithRc(a), extracted_data, format_issues, intra_issues,
                         cross_issues)
  IN  IF r.raised THEN "raised" ELSE r.response.status

\* C5, second half: with everything else fixed, the quality tier of rc does
\* not change the status.
C5_RcTierNeverChangesStatus ==
  pc = "decide" /\ docs # <<>> /\ HasKey(quality_results, "rc")
    => \A a \in RcAssessments :
         OutcomeWithRc(a) = OutcomeWithRc(Lookup(quality_results, "rc"))

\* C5: whenever the rc assessment is bad (failed evaluation or missing file),
\* the rc assessment in the response has recommended_action "ignore", and the
\* quality tier of rc never changes the status.
C5_RcBadIgnored ==
  /\ Decided /\ HasKey(quality_results, "rc")
       /\ Lookup(quality_results, "rc").quality = "bad"
       => Lookup(result.signals.quality, "rc").recommended_action = "ignore"
  /\ C5_RcTierNeverChangesStatus

\* both Aadhaar sides report a number and the two differ
FrontBackDiffer ==
  /\ "aadhaar_front" \in DOMAIN extracted_data
  /\ "aadhaar_back" \in DOMAIN extracted_data
  /\ "aadhaar_number" \in DOMAIN extracted_data["aadhaar_front"]
  /\ "aadhaar_number" \in DOMAIN extracted_data["aadhaar_back"]
  /\ extracted_data["aadhaar_front"]["aadhaar_number"].t = "str"
  /\ extracted_data["aadhaar_back"]["aadhaar_number"].t = "str"
  /\ extracted_data["aadhaar_front"]["aadhaar_number"].v # <<>>
  /\ extracted_data["aadhaar_back"]["aadhaar_number"].v # <<>>
  /\ extracted_data["aadhaar_front"]["aadhaar_number"].v
       # extracted_data["aadhaar_back"]["aadhaar_number"].v

\* C7: when rules 1 to 4 do not match and the format or intra list is not
\* empty, the status is REUPLOAD if one of those issues is critical (other
\* issues or not) and NEEDS_REVIEW otherwise; differing Aadhaar numbers on
\* front and back give AADHAAR_FRONT_BACK_MISMATCH and so REUPLOAD.
C7_CriticalReupload ==
  /\ Decided /\ MatchingRule(extracted_data) = 5
       => result.status = IF CriticalListed THEN "REUPLOAD" ELSE "NEEDS_REVIEW"
  /\ pc \in {"plate", "face", "decide"} /\ FrontBackDiffer
       => InList("AADHAAR_FRONT_BACK_MISMATCH", intra_issues)
  /\ Decided /\ FrontBackDiffer /\ MatchingRule(extracted_data) \notin 1..4
       => result.status = "REUPLOAD"

\* the numbers differ, a non-critical format issue is listed too: REUPLOAD
C7_Witness ==
  /\ pc = "done"
  /\ FrontBackDiffer
  /\ InList("AADHAAR_FRONT_BACK_MISMATCH", intra_issues)
  /\ \E n \in 1..Len(format_issues) : format_issues[n] \notin CriticalCodes
  /\ MatchingRule(extracted_data) = 5
  /\ result.status = "REUPLOAD"

\* C9: run_pipeline never raises and always returns a decision whose status
\* is VERIFIED, NEEDS_REVIEW, REUPLOAD or REJECT, whatever files are missing
\* and whatever the extractor and the face match return or raise.
C9_NeverRaises ==
  /\ pc # "raised"
  /\ pc = "done" => result.status \in {"VERIFIED", "NEEDS_REVIEW", "REUPLOAD", "REJECT"}

\* twelve digits once the spaces are removed
IsTwelveDigits(s) ==
  LET clean == SelectSeq(s, LAMBDA c : c # " ")
  IN  Len(clean) = 12 /\ \A n \in 1..12 : clean[n] \in Digit

\* C11: for every non-empty Aadhaar value that is not a valid 12-digit number
\* (wrong length, or holding a character that is no digit), mask_aadhaar
\* returns the sentinel "INVALID_FORMAT", never a string built from the input.
C11_MalformedSentinel ==
  pc = "mask_aadhaar" /\ arg.t = "str" /\ arg.v # <<>> /\ ~IsTwelveDigits(arg.v)
    => /\ ret.t = "str"
       /\ ret.v = <<"I","N","V","A","L","I","D","_","F","O","R","M","A","T">>


\* ---------------------------------------------------------------------
\* SpecExtracted: _mask_extracted_data applied to extracted maps whose
\* sensitive fields are drawn from the sets below.
\* ---------------------------------------------------------------------

\* names as an extractor may report them
NameInputs ==
  {<<"A","s","h","a"," ","R","a","o">>, <<" "," ","A","S","H","A"," "," ","R","A","O"," ">>, <<"A","s","h","a">>, <<"A","s","h">>, <<"A","X","X","X","X">>, <<"X"," ","R","a","o">>,
   <<"A","s","h","a"," ","D","e","v","i">> \o <<"\n">> \o <<"R","a","o">>}

\* Aadhaar numbers as an extractor may report them
AadhaarInputs ==
  {<<"1","2","3","4"," ","5","6","7","8"," ","9","0","1","2">>, <<"1","2","3","4","5","6","7","8","9","0","1","2">>, <<"X","X","X","X"," ","X","X","X","X"," ","9","0","1","2">>, <<"1","2","3","4"," ","5","6","7","8"," ","9","0","1">>,
   <<"A","B","C","D"," ","E","F","G","H"," ","I","J","K","L">>, <<"I","N","V","A","L","I","D","_","F","O","R","M","A","T">>}

\* driving-license numbers as an extractor may report them
LicenseInputs ==
  {<<"K","A","0","1","2","0","2","0","1","2","3","4","5","6","7">>, <<"K","A","0","1"," ","2","0","2","0"," ","1","2","3","4","5","6","7">>, <<"K","A","0","1","2","0">>, <<"K","A","0","1","2","3","4">>,
   <<"X","X","X","X">>, <<"K","A","X","X","X","X","4","5","6","7">>}

\* the extracted maps handed to _mask_extracted_data
ExtractedInputs ==
  {[aadhaar_front |-> [name |-> Str(n1), aadhaar_number |-> Str(a),
                       gender |-> Str(<<"F","e","m","a","l","e">>)],
    driving_license |-> [name |-> Str(n2), license_number |-> Str(l),
                         validity_nt |-> Str(<<"0","1","-","1","1","-","2","0","3","1">>)]] :
     n1 \in NameInputs, a \in AadhaarInputs, n2 \in NameInputs, l \in LicenseInputs}

InitExtracted ==
  /\ pc = "mask_extracted"
  /\ arg \in ExtractedInputs
  /\ ret = Null
  /\ NoPipeline

\* masked = self._mask_extracted_data(extracted_data)
MaskExtractedData ==
  /\ pc = "mask_extracted"
  /\ ret' = _mask_extracted_data(arg)
  /\ pc' = "_mask_extracted_data"
  /\ UNCHANGED <<docs, files, i, quality_results, extracted_data, format_issues,
                 intra_issues, cross_issues, result, faults, arg,
                 face_calls, temp_dir>>

SpecExtracted == InitExtracted /\ [][MaskExtractedData]_vars

\* the Aadhaar numbers, license numbers and names of an extracted map
SensitiveFields ==
  {<<"aadhaar_front", "name">>, <<"aadhaar_front", "aadhaar_number">>,
   <<"driving_license", "name">>, <<"driving_license", "license_number">>}

\* field f of the masked map neither equals nor contains the original value
Hidden(f) ==
  LET original == arg[f[1]][f[2]]
      masked == ret.masked[f[1]][f[2]]
  IN  masked.t = "str" => /\ masked.v # original.v
                          /\ ~Contains(masked.v, original.v)

\* the value holds none of the text the masks themselves are made of
NoMaskText(s) == ~HasChar(s, "X") /\ ~Contains(<<"I","N","V","A","L","I","D","_","F","O","R","M","A","T">>, s)

\* C12 as stated: every Aadhaar number, license number or name of length 4 or
\* more differs from its value in the response's extracted section and is not
\* contained in it.
C12_AlwaysHidden ==
  pc = "_mask_extracted_data" /\ ~ret.raised
    => \A f \in SensitiveFields :
         Len(arg[f[1]][f[2]].v) >= 4 => Hidden(f)

\* C12: every Aadhaar number, license number or name of length 4 or more that
\* holds no mask text itself (no letter X, no part of the sentinel) differs
\* from its value in the response's extracted section and is not contained in
\* it.
C12_HiddenUnlessMaskText ==
  pc = "_mask_extracted_data" /\ ~ret.raised
    => \A f \in SensitiveFields :
         Len(arg[f[1]][f[2]].v) >= 4 /\ NoMaskText(arg[f[1]][f[2]].v) => Hidden(f)

C12_Witness ==
  /\ pc = "_mask_extracted_data"
  /\ ~ret.raised
  /\ arg["aadhaar_front"]["name"].v = <<"A","s","h","a"," ","R","a","o">>
  /\ arg["aadhaar_front"]["aadhaar_number"].v = <<"1","2","3","4"," ","5","6","7","8"," ","9","0","1","2">>
  /\ arg["driving_license"]["license_number"].v = <<"K","A","0","1","2","0","2","0","1","2","3","4","5","6","7">>
  /\ ret.masked["aadhaar_front"]["name"].v = <<"A","X","X","X","X"," ","R","a","o">>
  /\ ret.masked["aadhaar_front"]["aadhaar_number"].v = <<"X","X","X","X"," ","X","X","X","X"," ","9","0","1","2">>
  /\ ret.masked["driving_license"]["license_number"].v = <<"K","A","X","X","X","X","4","5","6","7">>


\* ---------------------------------------------------------------------
\* SpecQuality: ImageQualityGate.evaluate applied to images whose measures
\* sit on both sides of every threshold.
\* ---------------------------------------------------------------------

QualityInputs ==
  {NoImage} \cup
  {[decodes |-> TRUE, w |-> w, h |-> h, blur |-> b, brightness |-> m,
    contrast |-> c, density |-> d] :
     w \in {299, 300, 800}, h \in {299, 300, 600}, b \in {99, 100},
     m \in {49, 50, 200, 201}, c \in {29, 30}, d \in {1, 2}}

InitQuality ==
  /\ pc = "quality_gate"
  /\ arg \in QualityInputs
  /\ ret = Null
  /\ NoPipeline

\* quality_result = quality_gate.evaluate(file_path)
Evaluate ==
  /\ pc = "quality_gate"
  /\ ret' = evaluate(arg)
  /\ pc' = "evaluate"
  /\ UNCHANGED <<docs, files, i, quality_results, extracted_data, format_issues,
                 intra_issues, cross_issues, result, faults, arg,
                 face_calls, temp_dir>>

SpecQuality == InitQuality /\ [][Evaluate]_vars

\* the checks an image passes, by position: 1 resolution, 2 blur,
\* 3 brightness, 4 contrast, 5 text likelihood
PassedChecks(img) ==
  {n \in 1..5 :
     \/ n = 1 /\ img.w >= 800 /\ img.h >= 600
     \/ n = 2 /\ img.blur >= 100
     \/ n = 3 /\ img.brightness >= 50 /\ img.brightness <= 200
     \/ n = 4 /\ img.contrast >= 30
     \/ n = 5 /\ img.density >= 2}

\* the check a failure message comes from
CheckOfSignal(msg) ==
  IF msg[1] = "Low resolution (" THEN 1
  ELSE IF msg[1] = "Blur detected (score=" THEN 2
  ELSE IF msg[1] \in {"Too dark (mean=", "Too bright (mean="} THEN 3
  ELSE IF msg[1] = "Low contrast (std=" THEN 4
  ELSE IF msg[1] = "Low text likelihood" THEN 5
  ELSE 0

\* C13: for an image that decodes with both dimensions at least 300,
\* evaluate returns risk_score = passed/5 (here in hundredths); the tier is
\* good/proceed for 4 or 5 passed checks, risky/proceed_with_caution for 2 or
\* 3, bad/reject for 0 or 1; signals holds one entry per failed check, in
\* check order.
C13_ScoreTierSignals ==
  pc = "evaluate" /\ arg.decodes /\ arg.w >= 300 /\ arg.h >= 300
    => LET passed == Cardinality(PassedChecks(arg))
       IN  /\ ret.risk_score = 20 * passed
           /\ passed \in {4, 5} =>
                ret.quality = "good" /\ ret.recommended_action = "proceed"
           /\ passed \in {2, 3} =>
                /\ ret.quality = "risky"
                /\ ret.recommended_action = "proceed_with_caution"
           /\ passed \in {0, 1} =>
                ret.quality = "bad" /\ ret.recommended_action = "reject"
           /\ Len(ret.signals) = 5 - passed
           /\ {CheckOfSignal(ret.signals[k]) : k \in 1..Len(ret.signals)}
                = (1..5) \ PassedChecks(arg)
           /\ \A k \in 1..(Len(ret.signals) - 1) :
                CheckOfSignal(ret.signals[k]) < CheckOfSignal(ret.signals[k + 1])

C13_Witness ==
  /\ pc = "evaluate"
  /\ arg.decodes /\ arg.w >= 300 /\ arg.h >= 300
  /\ PassedChecks(arg) = {2, 5}
  /\ ret.quality = "risky"
  /\ ret.risk_score = 40
  /\ Len(ret.signals) = 3


\* ---------------------------------------------------------------------
\* SpecChecks: format_checks and cross_document_consistency applied to
\* extracted maps drawn from the sets below.
\* ---------------------------------------------------------------------

\* validity dates as an extractor may report them; Today is 01-11-2026
ValidityInputs ==
  {Null, Str(<<>>), Str(<<"3","1","-","1","0","-","2","0","2","6">>), Str(<<"0","1","-","1","1","-","2","0","2","6">>), Str(<<"0","2","-","1","1","-","2","0","2","6">>),
   Str(<<"1","-","1","-","2","0","2","0">>), Str(<<"2","0","2","6","-","1","0","-","3","1">>), Str(<<"3","1","-","0","2","-","2","0","2","0">>)}

\* driving_license entries: with and without the validity fields
DlEntries ==
  {[license_number |-> n, validity_nt |-> a, validity_tr |-> b] :
     n \in {Null, Str(<<"K","A","0","1"," ","2","0","1","1","0","0","1","2","3","4","5">>), Str(<<"K","A","-","0","1","2","0">>)},
     a \in ValidityInputs, b \in ValidityInputs}
  \cup {[license_number |-> Str(<<"K","A","-","0","1","2","0">>)],
        [extraction_error |-> Str(<<"C","o","n","n","e","c","t","i","o","n"," ","e","r","r","o","r",".">>)]}

\* extracted maps for the expiry sub-check: the entry absent or present
ExpiryInputs ==
  {[aadhaar_front |-> [name |-> Str(<<"A","s","h","a"," ","R","a","o">>)]]}
  \cup {[driving_license |-> e] : e \in DlEntries}


\* names, dates of birth and vehicle numbers on the two sides of a
\* cross-document comparison
CrossNames ==
  {Null, Str(<<>>), Str(<<"A","s","h","a"," ","R","a","o">>), Str(<<" "," ","a","s","h","a"," "," "," ","R","A","O"," ">>), Str(<<"A","s","h","a"," ","R">>)}

CrossDobs ==
  {Null, Str(<<"0","5","-","0","3","-","1","9","9","0">>), Str(<<"5","-","3","-","1","9","9","0">>), Str(<<"0","5","-","0","3","-","1","9","9","1">>)}

CrossNumbers ==
  {Null, Str(<<"K","A","-","0","1"," ","A","B"," ","1","2","3","4">>), Str(<<"k","a","0","1","a","b","1","2","3","4">>), Str(<<"K","A","0","1","A","B","1","2","3","5">>)}

\* extracted maps for the cross-document comparisons
CrossInputs ==
  {[aadhaar_front |-> [name |-> na, date_of_birth |-> da],
    driving_license |-> [name |-> nd, date_of_birth |-> dd],
    vehicle_plate_photo |-> [vehicle_number |-> p],
    rc |-> [vehicle_number |-> r]] :
     na \in CrossNames, nd \in CrossNames, da \in CrossDobs, dd \in CrossDobs,
     p \in CrossNumbers, r \in CrossNumbers}
  \cup {[aadhaar_front |-> [name |-> na, date_of_birth |-> da],
         vehicle_plate_photo |-> [vehicle_number |-> p]] :
          na \in CrossNames, da \in CrossDobs, p \in CrossNumbers}

InitChecks ==
  /\ pc = "checker"
  /\ arg \in ExpiryInputs \cup CrossInputs
  /\ ret = Null
  /\ NoPipeline

\* format_issues = checker.format_checks(extracted_data)
FormatChecks ==
  /\ pc = "checker"
  /\ ret' = format_checks(arg, Today)
  /\ pc' = "format_checks"
  /\ UNCHANGED <<docs, files, i, quality_results, extracted_data, format_issues,
                 intra_issues, cross_issues, result, faults, arg,
                 face_calls, temp_dir>>

\* cross_issues = checker.cross_document_consistency(extracted_data)
CrossDocumentConsistency ==
  /\ pc = "checker"
  /\ ret' = cross_document_consistency(arg)
  /\ pc' = "cross_document_consistency"
  /\ UNCHANGED <<docs, files, i, quality_results, extracted_data, format_issues,
                 intra_issues, cross_issues, result, faults, arg,
                 face_calls, temp_dir>>

NextChecks ==
  \/ FormatChecks
  \/ CrossDocumentConsistency

SpecChecks == InitChecks /\ [][NextChecks]_vars

\* field key of document doc_type in arg, Null where either is absent
FieldOf(doc_type, key) ==
  IF doc_type \in DOMAIN arg /\ key \in DOMAIN arg[doc_type]
  THEN arg[doc_type][key] ELSE Null

\* a field that holds a non-empty string
Present(v) == v.t = "str" /\ v.v # <<>>

\* the drawn dates that read as day-month-year and lie before 01-11-2026
DatesBeforeToday == {<<"3","1","-","1","0","-","2","0","2","6">>, <<"1","-","1","-","2","0","2","0">>}

\* C14: format_checks runs the expiry sub-check whatever the DL number is and
\* also without a driving_license entry: DL_EXPIRED_NT / DL_EXPIRED_TR is
\* emitted exactly for a present validity date that reads as day-month-year
\* and lies strictly before today (today itself and unreadable dates emit
\* nothing), and DL_EXPIRY_NOT_READABLE exactly when both dates are absent.
C14_ExpirySubCheck ==
  pc = "format_checks"
    => LET nt == FieldOf("driving_license", "validity_nt")
           tr == FieldOf("driving_license", "validity_tr")
       IN  /\ InList("DL_EXPIRED_NT", ret)
                <=> (Present(nt) /\ nt.v \in DatesBeforeToday)
           /\ InList("DL_EXPIRED_TR", ret)
                <=> (Present(tr) /\ tr.v \in DatesBeforeToday)
           /\ InList("DL_EXPIRY_NOT_READABLE", ret)
                <=> (~Present(nt) /\ ~Present(tr))

C14_Witness ==
  /\ pc = "format_checks"
  /\ FieldOf("driving_license", "license_number") = Str(<<"K","A","-","0","1","2","0">>)
  /\ FieldOf("driving_license", "validity_nt") = Str(<<"0","1","-","1","1","-","2","0","2","6">>)
  /\ FieldOf("driving_license", "validity_tr") = Str(<<"3","1","-","1","0","-","2","0","2","6">>)
  /\ ret = <<"INVALID_DL_FORMAT", "DL_EXPIRED_TR">>

\* the tokens of a name, lower-cased
NameTokens(v) == str_split(str_lower(v.v))

\* the letters and digits of a vehicle number, upper-cased
NumberKey(v) == str_upper(SelectSeq(v.v, LAMBDA c : c \in Upper \cup Lower \cup Digit))

\* C15: cross_document_consistency emits, in this order, NAME_MISMATCH iff
\* both names are present and differ after lower-casing, trimming and
\* collapsing whitespace; DOB_MISMATCH iff both dates of birth are present and
\* their raw strings differ; PLATE_RC_MISMATCH iff both vehicle numbers are
\* present and differ after stripping non-alphanumerics and upper-casing.
C15_CrossMismatches ==
  pc = "cross_document_consistency"
    => LET na == FieldOf("aadhaar_front", "name")
           nd == FieldOf("driving_license", "name")
           da == FieldOf("aadhaar_front", "date_of_birth")
           dd == FieldOf("driving_license", "date_of_birth")
           p == FieldOf("vehicle_plate_photo", "vehicle_number")
           r == FieldOf("rc", "vehicle_number")
           name == Present(na) /\ Present(nd) /\ NameTokens(na) # NameTokens(nd)
           dob == Present(da) /\ Present(dd) /\ da.v # dd.v
           plate == Present(p) /\ Present(r) /\ NumberKey(p) # NumberKey(r)
       IN  ret = (IF name THEN <<"NAME_MISMATCH">> ELSE <<>>)
                   \o (IF dob THEN <<"DOB_MISMATCH">> ELSE <<>>)
                   \o (IF plate THEN <<"PLATE_RC_MISMATCH">> ELSE <<>>)

C15_Witness ==
  /\ pc = "cross_document_consistency"
  /\ FieldOf("aadhaar_front", "name") = Str(<<"A","s","h","a"," ","R","a","o">>)
  /\ FieldOf("driving_license", "name") = Str(<<" "," ","a","s","h","a"," "," "," ","R","A","O"," ">>)
  /\ FieldOf("aadhaar_front", "date_of_birth") = Str(<<"0","5","-","0","3","-","1","9","9","0">>)
  /\ FieldOf("driving_license", "date_of_birth") = Str(<<"5","-","3","-","1","9","9","0">>)
  /\ FieldOf("vehicle_plate_photo", "vehicle_number") = Str(<<"K","A","-","0","1"," ","A","B"," ","1","2","3","4">>)
  /\ FieldOf("rc", "vehicle_number") = Str(<<"K","A","0","1","A","B","1","2","3","5">>)
  /\ ret = <<"DOB_MISMATCH", "PLATE_RC_MISMATCH">>


\* C16: in every response of run_pipeline, documents_processed lists exactly
\* the document types of the request, quality_summary has exactly one entry
\* (its tier) per requested document type, and every key of
\* extraction_summary is a document type of the request, mapped to "failed"
\* if that document's extracted data carries extraction_error and to
\* "success" otherwise.
C16_MetadataOfRequest ==
  pc = "done"
    => LET meta == result.pipeline_metadata
       IN  /\ meta.documents_processed = docs
           /\ Len(meta.quality_summary) = Len(docs)
           /\ \A n \in 1..Len(docs) :
                /\ meta.quality_summary[n].k = docs[n]
                /\ meta.quality_summary[n].v = Lookup(quality_results, docs[n]).quality
           /\ \A d \in DOMAIN meta.extraction_summary :
                /\ InList(d, docs)
                /\ meta.extraction_summary[d] =
                     IF "extraction_error" \in DOMAIN extracted_data[d]
                     THEN "failed" ELSE "success"


\* the steps of run_pipeline that follow the extraction loop
PastExtraction == {"checks", "plate", "face", "decide", "metadata", "done", "raised"}

\* the requested documents whose file exists
ExistingDocs == {d \in DocTypes : InList(d, docs) /\ files[d]}

\* the documents the extractor has been invoked for (fields or error stored)
ExtractedDocs == DOMAIN extracted_data \cap DocTypes

\* C17: the three consistency passes and the decision happen only after the
\* extractor has been invoked, and has returned or failed, for every document
\* whose file exists; no extraction happens once the first pass can start.
C17_ChecksAfterExtraction ==
  [][/\ pc' \in PastExtraction => ExtractedDocs' = ExistingDocs'
     /\ pc \in PastExtraction => ExtractedDocs' = ExtractedDocs]_vars

C17_Witness ==
  /\ pc = "decide"
  /\ \E d \in DocTypes : InList(d, docs) /\ ~files[d]
  /\ Cardinality(ExistingDocs) >= 2
  /\ ExtractedDocs = ExistingDocs
  /\ format_issues # <<>>


\* C18: the plate-OCR validation tuple is merged into the plate document's
\* extracted data, and the FaceMatch call is made, before the three
\* consistency passes run: the map the passes read holds the merged tuple and
\* the face-match entry.
C18_ChecksSeeMergedMap ==
  pc = "checks"
    => /\ "vehicle_plate_photo" \in DOMAIN extracted_data
            => "plate_valid" \in DOMAIN extracted_data["vehicle_plate_photo"]
       /\ face_match_due => "face_match" \in DOMAIN extracted_data


\* the steps of run_pipeline that follow step 4.5
PastFaceMatch == {"decide", "metadata", "done", "raised"}

\* C19: within one run_pipeline call llm_face_match is called at most once,
\* and it is called iff selfie and driving_license are both in the request
\* with both files existing, whatever their tier and whether or not their
\* extraction succeeded; a call that raised leaves {error: message} under
\* face_match, and the step is followed by the decision either way.
C19_FaceMatchOnce ==
  [][/\ Len(face_calls') <= 1
     /\ pc' \in PastFaceMatch =>
          (Len(face_calls') = 1 <=> {"selfie", "driving_license"} \subseteq ExistingDocs')
     /\ pc' \notin PastFaceMatch => face_calls' = <<>>
     /\ pc' = "decide" /\ face_calls' = <<"raise">> =>
          /\ DOMAIN extracted_data'["face_match"] = {"error"}
          /\ extracted_data'["face_match"]["error"].t = "str"
          /\ extracted_data'["face_match"]["error"].v # <<>>
     /\ pc = "face" => pc' = "decide"]_vars

\* the call was made for a driving license the gate rated bad and a selfie
\* whose extraction failed, it raised, and the decision was made
C19_Witness ==
  /\ pc = "metadata"
  /\ face_calls = <<"raise">>
  /\ Lookup(quality_results, "driving_license").quality = "bad"
  /\ "extraction_error" \in DOMAIN extracted_data["selfie"]
  /\ DOMAIN extracted_data["face_match"] = {"error"}
  /\ result.status \in {"VERIFIED", "NEEDS_REVIEW", "REUPLOAD", "REJECT"}


\* C20: once an assessment or a document's extracted map has been created,
\* the only in-place change made to any of them is the merge of the plate-OCR
\* tuple into vehicle_plate_photo's map; in particular the decision step
\* leaves quality_results and extracted_data as it received them.
C20_OnlyPlateMerge ==
  [][/\ \A d \in DOMAIN extracted_data :
          /\ d \in DOMAIN extracted_data'
          /\ \/ extracted_data'[d] = extracted_data[d]
             \/ d = "vehicle_plate_photo" /\ pc = "plate"
     /\ \A n \in 1..Len(quality_results) :
          /\ n <= Len(quality_results')
          /\ quality_results'[n] = quality_results[n]]_vars


\* the reason the rule-7 branch of make_decision gives
ExpiryNotReadableReason == <<<<"Driving license expiry date not readable">>>>

\* the reasons rules 5 and 6 give
FormatOrCrossReasons ==
  {<<<<"Document format or consistency issues">>>>,
   <<<<"Minor document issues require review">>>>,
   <<<<"Cross-document inconsistencies">>>>}

\* C21 as stated: a listed DL_EXPIRY_NOT_READABLE is always handled by rule 5
\* or 6, giving NEEDS_REVIEW or REUPLOAD with one of their reasons.
C21_AlwaysRule5Or6 ==
  Answered /\ Listed("DL_EXPIRY_NOT_READABLE")
    => /\ result.status \in {"NEEDS_REVIEW", "REUPLOAD"}
       /\ result.reasons \in FormatOrCrossReasons

\* C21: the rule-7 branch is never taken (no response carries its reason);
\* a listed DL_EXPIRY_NOT_READABLE that rules 1 to 4 leave undecided is
\* handled by rule 5 or 6: REUPLOAD when rule 5 finds a critical issue,
\* NEEDS_REVIEW otherwise, with the reason of that rule.
C21_Rule7NeverTaken ==
  Answered
    => /\ result.reasons # ExpiryNotReadableReason
       /\ Listed("DL_EXPIRY_NOT_READABLE") /\ MatchingRule(arg) \notin {1, 2, 3, 4}
            => /\ MatchingRule(arg) \in {5, 6}
               /\ result.reasons \in FormatOrCrossReasons
               /\ result.status =
                    IF (format_issues # <<>> \/ intra_issues # <<>>) /\ CriticalListed
                    THEN "REUPLOAD" ELSE "NEEDS_REVIEW"

C21_Witness ==
  /\ Answered
  /\ format_issues = <<"DL_EXPIRY_NOT_READABLE">>
  /\ intra_issues = <<>>
  /\ cross_issues = <<>>
  /\ MatchingRule(arg) = 5
  /\ result.status = "NEEDS_REVIEW"
  /\ result.reasons = <<<<"Minor document issues require review">>>>


\* the face match failed ({error: message}) or was not made
FaceFailedOrAbsent(data) ==
  "face_match" \in DOMAIN data => DOMAIN data["face_match"] = {"error"}

\* the same extracted data with no face-match entry
WithoutFace(data) == [d \in DOMAIN data \ {"face_match"} |-> data[d]]

\* the status make_decision gives the same request with no face-match entry
StatusWithoutFace(data) ==
  first_rule(IssueLists, face_conf_of(data), reupload_docs_of(quality_results),
             quality_results, data, format_issues, intra_issues,
             cross_issues).status

\* C22: with a failed face match ({error: message}) or none at all, neither
\* rule 2 nor rule 4 fires: the status is that of rules 1, 3, 5, 6 and 8 and
\* equals the status of the same request without a face-match entry; it is
\* VERIFIED when nothing else is found, with no confidence or same_person
\* value under face_match.
C22_FailedFaceMatchIgnored ==
  Answered /\ FaceFailedOrAbsent(arg)
    => /\ MatchingRule(arg) \in {1, 3, 5, 6, 8}
       /\ result.status = StatusOfRule(MatchingRule(arg))
       /\ result.status = StatusWithoutFace(WithoutFace(arg))
       /\ (~ExpiredListed /\ BadMandatory = {} /\ IssueLists = <<>>)
            => result.status = "VERIFIED"

C22_Witness ==
  /\ Answered
  /\ "face_match" \in DOMAIN arg
  /\ DOMAIN arg["face_match"] = {"error"}
  /\ result.status = "VERIFIED"
  /\ DOMAIN result.signals.face_match.d = {"error"}


\* the selfie is in the request and its file exists
SelfieExists == InList("selfie", docs) /\ files["selfie"]

\* what step 2 stores for the selfie: {extraction_error, confidence: 0.0}
SelfieFailed ==
  /\ "selfie" \in DOMAIN extracted_data
  /\ DOMAIN extracted_data["selfie"] = {"extraction_error", "confidence"}
  /\ extracted_data["selfie"]["extraction_error"].t = "str"
  /\ extracted_data["selfie"]["confidence"] = Num(0)

\* C23 as stated: whenever the selfie file exists its extraction fails,
\* extraction_summary.selfie is "failed", and the final confidence never
\* exceeds mean(risk_score) - 0.1.
C23_BelowMeanMinusPenalty ==
  /\ pc \in PastExtraction /\ SelfieExists => SelfieFailed
  /\ pc = "done" /\ SelfieExists
       => /\ result.pipeline_metadata.extraction_summary["selfie"] = "failed"
          /\ result.confidence * Len(quality_results)
               <= RiskTotal - 10 * Len(quality_results)

\* C23: whenever the selfie file exists its extraction fails,
\* extraction_summary.selfie is "failed", and the final confidence carries
\* the 0.1 penalty of the selfie: it never exceeds max(0, mean(risk_score) -
\* 0.1) rounded to two decimals.
C23_SelfieAlwaysFails ==
  /\ pc \in PastExtraction /\ SelfieExists => SelfieFailed
  /\ pc = "done" /\ SelfieExists
       => /\ result.pipeline_metadata.extraction_summary["selfie"] = "failed"
          /\ LET n == Len(quality_results)
                 x == RiskTotal - 10 * n
             IN  IF x <= 0 THEN result.confidence = 0
                 ELSE 2 * (result.confidence * n - x) <= n

C23_Witness ==
  /\ pc = "done"
  /\ SelfieExists
  /\ SelfieFailed
  /\ result.pipeline_metadata.extraction_summary["selfie"] = "failed"
  /\ result.confidence > 0


\* ---------------------------------------------------------------------
\* SpecPlate: run_pipeline from step 3 on, for a request of the plate photo
\* and the RC whose extracted fields are drawn from the sets below.
\* ---------------------------------------------------------------------

\* vehicle numbers as the extractor may report them for the plate photo
PlateNumbers ==
  {Null, Str(<<>>), Str(<<" ">>), Str(<<"K","A","-","0","1"," ","A","B"," ","1","2","3","4">>), Str(<<"k","a","0","1","a","b","1","2","3","4">>),
   Str(<<"K","A","-","0","1"," "," ","A","B"," ","1","2","3","4">>), Str(<<"K","A","0","1","A","B","1","2","3","4","5">>),
   Str(<<"K","A","0","1","A","B","1","2","3","4">> \o <<"\n">> \o <<"(","p","a","r","t","l","y"," ","h","i","d","d","e","n",")">>)}

PlateDocuments ==
  {[vehicle_number |-> n, confidence |-> Num(c)] :
     n \in PlateNumbers, c \in {40, 90}}
  \cup {[vehicle_number |-> n] : n \in PlateNumbers}
  \cup {[extraction_error |-> Str(<<"C","o","n","n","e","c","t","i","o","n"," ","e","r","r","o","r",".">>), confidence |-> Num(0)]}

RcDocuments ==
  {[vehicle_number |-> Str(<<"k","a","0","1","a","b","1","2","3","4">>), confidence |-> Num(85)],
   [vehicle_number |-> Str(<<"K","A","0","1","A","B","1","2","3","5">>), confidence |-> Num(85)]}

InitPlate ==
  /\ pc = "checks"
  /\ docs = <<"vehicle_plate_photo", "rc">>
  /\ files = [d \in DocTypes |-> d \in {"vehicle_plate_photo", "rc"}]
  /\ i = 3
  /\ faults = 0
  /\ quality_results =
       <<[k |-> "vehicle_plate_photo", v |-> assess("vehicle_plate_photo", TRUE, GoodImage)],
         [k |-> "rc", v |-> assess("rc", TRUE, GoodImage)]>>
  /\ \E p \in PlateDocuments, r \in RcDocuments :
       extracted_data = [vehicle_plate_photo |-> p, rc |-> r]
  /\ format_issues = <<>>
  /\ intra_issues = <<>>
  /\ cross_issues = <<>>
  /\ result = NoResponse
  /\ arg = extracted_data
  /\ ret = Null
  /\ face_calls = <<>>
  /\ temp_dir = "None"

NextPlate ==
  \/ RunChecks
  \/ PlateValidation
  \/ FaceMatch
  \/ Decide
  \/ Metadata

SpecPlate == InitPlate /\ [][NextPlate]_vars

\* the vehicle_number the extractor reported for the plate photo
ReportedPlateNumber == Get(arg["vehicle_plate_photo"], "vehicle_number")

RECURSIVE JoinSpace(_)
\* the tokens joined by single spaces
JoinSpace(tokens) ==
  IF tokens = <<>> THEN <<>>
  ELSE IF Len(tokens) = 1 THEN tokens[1]
  ELSE tokens[1] \o <<" ">> \o JoinSpace(Tail(tokens))

\* a reported value as the cleaning of _mask_extracted_data leaves it: the
\* words of its first line, single-spaced
CleanedValue(v) ==
  IF Present(v) THEN Str(JoinSpace(str_split(first_line(v.v)))) ELSE v

AadhaarKeys == {"name", "aadhaar_number", "gender", "date_of_birth", "year_of_birth"}

\* the keys the extracted section may show for the driving license
LicenseKeys ==
  {"name", "license_number", "date_of_birth", "issue_date", "validity_nt",
   "validity_tr", "issuing_authority"}

\* C25: in the response's extracted section the entries of aadhaar_front and
\* aadhaar_back hold only keys of AadhaarKeys and the entry of
\* driving_license only keys of LicenseKeys; address, pincode, state,
\* confidence and extraction_error of those documents are never shown.
C25_OnlyListedKeys ==
  Decided
    => \A d \in DOMAIN result.extracted \cap
                  {"aadhaar_front", "aadhaar_back", "driving_license"} :
         /\ DOMAIN result.extracted[d]
              \subseteq (IF d = "driving_license" THEN LicenseKeys ELSE AadhaarKeys)
         /\ DOMAIN result.extracted[d]
              \cap {"address", "pincode", "state", "confidence", "extraction_error"} = {}

C25_Witness ==
  /\ Decided
  /\ {"aadhaar_back", "driving_license"} \subseteq DOMAIN result.extracted
  /\ {"address", "pincode", "state", "confidence"}
       \subseteq DOMAIN extracted_data["aadhaar_back"]
  /\ "extraction_error" \in DOMAIN extracted_data["driving_license"]
  /\ DOMAIN result.extracted["aadhaar_back"] = {"aadhaar_number"}
  /\ "extraction_error" \notin DOMAIN result.extracted["driving_license"]


\* ------------------------------------------------------------------------
\* app.py verify_kyc: the handler around run_pipeline.  arg is the request
\* (what becomes of each upload and of mkdtemp, the form fields), ret the
\* responses sent so far
\* ------------------------------------------------------------------------

\* what becomes of one upload: "converted" (convert_to_images returns a
\* non-empty list), "empty" (it returns []), "raises" (saving the upload or
\* converting it raises), "nofile" (no file or no filename: skipped)
UploadKinds == {"converted", "empty", "raises", "nofile"}

KycRequests ==
  [uploads : [DocTypes -> UploadKinds],
   mkdtemp : {"created", "raises"},
   rider_id : {Str(<<"R","1","7">>)},
   onboarding_id : {Null}]

InitHandler ==
  /\ pc = "mkdtemp"
  /\ arg \in KycRequests
  /\ faults = Cardinality({d \in DocTypes : arg.uploads[d] # "converted"})
                + (IF arg.mkdtemp = "raises" THEN 1 ELSE 0)
  /\ faults <= MaxFaults
  /\ ret = <<>>
  /\ temp_dir = "None"
  /\ docs = <<>>
  /\ files = [d \in DocTypes |-> FALSE]
  /\ i = 1
  /\ quality_results = <<>>
  /\ extracted_data = EmptyDict
  /\ format_issues = <<>>
  /\ intra_issues = <<>>
  /\ cross_issues = <<>>
  /\ result = NoResponse
  /\ face_calls = <<>>

\* temp_dir = tempfile.mkdtemp(prefix="kyc_"); when it raises temp_dir stays None
MakeTempDir ==
  /\ pc = "mkdtemp"
  /\ IF arg.mkdtemp = "created"
     THEN temp_dir' = "created" /\ pc' = "save"
     ELSE temp_dir' = temp_dir /\ pc' = "except"
  /\ UNCHANGED <<docs, files, i, quality_results, extracted_data, format_issues,
                 intra_issues, cross_issues, result, faults, arg, ret,
                 face_calls>>

\* one turn of the loop over file_mappings: skip, or save and convert; an
\* empty conversion raises ValueError
SaveUpload ==
  /\ pc = "save"
  /\ i <= Len(DocOrder)
  /\ LET doc_type == DocOrder[i]
         kind == arg.uploads[doc_type]
     IN IF kind = "nofile"
        THEN /\ i' = i + 1
             /\ UNCHANGED <<pc, docs, files>>
        ELSE IF kind = "converted"
        THEN /\ docs' = Append(docs, doc_type)
             /\ files' = [files EXCEPT ![doc_type] = TRUE]
             /\ i' = i + 1
             /\ pc' = pc
        ELSE /\ pc' = "except"
             /\ UNCHANGED <<docs, files, i>>
  /\ UNCHANGED <<quality_results, extracted_data, format_issues, intra_issues,
                 cross_issues, result, faults, arg, ret, face_calls, temp_dir>>

\* result = run_pipeline(docs): the pipeline's steps follow
CallPipeline ==
  /\ pc = "save"
  /\ i > Len(DocOrder)
  /\ pc' = "quality"
  /\ i' = 1
  /\ UNCHANGED <<docs, files, quality_results, extracted_data, format_issues,
                 intra_issues, cross_issues, result, faults, arg, ret,
                 face_calls, temp_dir>>

\* result["metadata"] = {...}; return result
ReturnResult ==
  /\ pc = "done"
  /\ result' = Update(result, [metadata |-> [rider_id |-> arg.rider_id,
                                             onboarding_id |-> arg.onboarding_id]])
  /\ ret' = Append(ret, [status_code |-> 200, body |-> result'])
  /\ pc' = "finally"
  /\ UNCHANGED <<docs, files, i, quality_results, extracted_data, format_issues,
                 intra_issues, cross_issues, faults, arg, face_calls, temp_dir>>

\* except Exception as e: raise HTTPException(status_code=500, ...)
ExceptException ==
  /\ pc \in {"except", "raised"}
  /\ ret' = Append(ret, [status_code |-> 500,
                         detail |-> <<"KYC verification failed">>])
  /\ pc' = "finally"
  /\ UNCHANGED <<docs, files, i, quality_results, extracted_data, format_issues,
                 intra_issues, cross_issues, result, faults, arg, face_calls,
                 temp_dir>>

\* the finally block as it would be were the directory removed only after a
\* decision was returned
Finally_after_return ==
  /\ pc = "finally"
  /\ temp_dir' = IF temp_dir = "created" /\ ret[Len(ret)].status_code = 200
                 THEN "removed" ELSE temp_dir
  /\ pc' = "finished"
  /\ UNCHANGED <<docs, files, i, quality_results, extracted_data, format_issues,
                 intra_issues, cross_issues, result, faults, arg, ret,
                 face_calls>>

\* finally: if temp_dir and os.path.exists(temp_dir): shutil.rmtree(temp_dir)
Finally ==
  /\ pc = "finally"
  /\ temp_dir' = IF temp_dir = "created" THEN "removed" ELSE temp_dir
  /\ pc' = "finished"
  /\ UNCHANGED <<docs, files, i, quality_results, extracted_data, format_issues,
                 intra_issues, cross_issues, result, faults, arg, ret,
                 face_calls>>

NextHandler ==
  \/ MakeTempDir
  \/ SaveUpload
  \/ CallPipeline
  \/ Assess
  \/ AssessDone
  \/ Extract
  \/ ExtractDone
  \/ RunChecks
  \/ PlateValidation
  \/ FaceMatch
  \/ Decide
  \/ Metadata
  \/ ReturnResult
  \/ ExceptException
  \/ Finally

SpecHandler == InitHandler /\ [][NextHandler]_vars

\* the failures the handler can meet, read off the request and the pipeline
ConversionFailure == \E d \in DocTypes : arg.uploads[d] = "raises"

EmptyConversion == \E d \in DocTypes : arg.uploads[d] = "empty"

PipelineException == quality_results # <<>> /\ result = NoResponse

\* C26: when verify_kyc finishes, a temporary directory that was created no
\* longer exists, whether the handler returned a decision, a conversion raised,
\* a conversion produced no image or the pipeline raised; exactly one response
\* was sent, and after any such failure it is an HTTP 500 carrying no decision,
\* while a 200 carries the whole decision with its metadata
C26_TempDirRemoved ==
  /\ Len(ret) <= 1
  /\ temp_dir = "created" => pc \notin {"mkdtemp", "finished"}
  /\ pc = "finished" =>
       /\ arg.mkdtemp = "created" => temp_dir = "removed"
       /\ Len(ret) = 1
       /\ ret[1].status_code \in {200, 500}
       /\ (ConversionFailure \/ EmptyConversion \/ PipelineException
             \/ arg.mkdtemp = "raises") =>
            /\ ret[1].status_code = 500
            /\ DOMAIN ret[1] = {"status_code", "detail"}
            /\ result = NoResponse
       /\ ret[1].status_code = 200 =>
            /\ ret[1].body = result
            /\ result.status \in {"VERIFIED", "NEEDS_REVIEW", "REUPLOAD", "REJECT"}
            /\ {"metadata", "pipeline_metadata"} \subseteq DOMAIN result

\* the pipeline raised after the uploads were converted: one HTTP 500 and the
\* directory is gone
C26_Witness ==
  /\ pc = "finished"
  /\ temp_dir = "removed"
  /\ PipelineException
  /\ Len(ret) = 1
  /\ ret[1].status_code = 500

====
